---- MODULE Spec2Model ----
(***************************************************************************)
(* The three developer-QA checkers of the AKM website: AccessibilityChecker *)
(* (src/unnamed/part_000), PerformanceChecker (src/js/qa-performance.js)    *)
(* and LinkChecker (src/js/qa-links.js), run on one page by the browser's   *)
(* single-threaded event loop.                                              *)
(*                                                                          *)
(* Strings that the code inspects character by character (href attributes, *)
(* URLs, hostnames) are sequences of one-character strings, so that         *)
(* String.includes, startsWith and the attribute selectors are computed.    *)
(***************************************************************************)
EXTENDS Integers, Sequences, FiniteSets, TLC

\* ------------------------------------------------------------ bounds
\* Largest number of anchors in the document under test.
MaxLinks == 2
\* Largest number of headings in the document under test.
MaxHeadings == 3
\* Largest number of calls of a checker's run method on one instance.
MaxCalls == 2
\* Largest number of image-like elements in the document under test.
MaxImages == 2
\* Largest number of elements in the document tree given to the selector
\* resolver.
MaxNodes == 4
\* Largest number of clicks on a finding of the panel.
MaxClicks == 2
\* Largest number of entries of performance.getEntriesByType('resource').
MaxResources == 2
\* Largest number of elements with a role, a tabindex or aria attributes.
MaxElements == 2
\* Largest number of .nav-link anchors in the navigation menu.
MaxNavLinks == 3
\* Largest number of times the mobile menu is opened.
MaxOpens == 3

Runs == 1..MaxCalls

\* ------------------------------------------------------------ strings
\* String.prototype.includes
Includes(s, t) ==
    \E i \in 0..(Len(s) - Len(t)) : SubSeq(s, i + 1, i + Len(t)) = t

\* String.prototype.startsWith
StartsWith(s, t) ==
    Len(s) >= Len(t) /\ SubSeq(s, 1, Len(t)) = t

\* The part of s before the first character that is in stops (all of s if none).
RECURSIVE UpTo(_, _)
UpTo(s, stops) ==
    IF s = <<>> \/ Head(s) \in stops
    THEN <<>>
    ELSE <<Head(s)>> \o UpTo(Tail(s), stops)

\* ------------------------------------------------------------ the page
\* window.location.hostname of the page under test: the development host on
\* which the checkers enable themselves.
LocationHostname == <<"l","o","c","a","l","h","o","s","t">>

HttpScheme == <<"h","t","t","p",":">>

\* The page's origin and URL: http://localhost and http://localhost/
LocationOrigin == HttpScheme \o <<"/","/">> \o LocationHostname

LocationHref == LocationOrigin \o <<"/">>

\* The host the site is published on.
ProductionHostname ==
    <<"u","x","m","e","a","s",".","g","i","t","h","u","b",".","i","o">>

\* 'debug='
DebugEquals == <<"d","e","b","u","g","=">>

\* The flag each listener looks for in window.location.search.
DebugFlag(e) ==
    DebugEquals \o (CASE e = "a11y" -> <<"a","1","1","y">>
                      [] e = "perf" -> <<"p","e","r","f">>
                      [] OTHER -> <<"l","i","n","k","s">>)

\* window.location.search of the page loads considered: no query, each
\* checker's flag, and a query that holds no flag.
LocationSearches ==
    {<<>>, <<"?">> \o DebugFlag("a11y"), <<"?">> \o DebugFlag("perf"),
     <<"?">> \o DebugFlag("links"), <<"?","p","=","1">>}

\* The page the development server serves, once parsed.
DevelopmentPage ==
    [hostname |-> LocationHostname, search |-> <<>>, readyState |-> "interactive"]

\* The condition of checker e's DOMContentLoaded listener.
ListenerCondition(p, e) ==
    p.hostname = LocationHostname \/ Includes(p.search, DebugFlag(e))

\* Whether the DOMContentLoaded listener of checker e runs the checker: the
\* event has been dispatched and the condition holds.
ListenerRuns(p, e) ==
    p.readyState # "loading" /\ ListenerCondition(p, e)

\* this.allowedDomains
allowedDomains ==
    << <<"l","i","n","k","e","d","i","n",".","c","o","m">>,
       <<"t","w","i","t","t","e","r",".","c","o","m">>,
       <<"y","o","u","t","u","b","e",".","c","o","m">>,
       <<"g","i","t","h","u","b",".","c","o","m">>,
       <<"b","o","o","t","s","t","r","a","p",".","c","o","m">>,
       <<"f","o","n","t","a","w","e","s","o","m","e",".","c","o","m">> >>

\* The href attributes an anchor of the document under test may carry:
\*   "#", "#top", "//" (no host: does not parse), "/a.html",
\*   "//github.com", "//github.community", "//example.org"
HrefAttributes ==
    { <<"#">>,
      <<"#","t","o","p">>,
      <<"/","/">>,
      <<"/","a",".","h","t","m","l">>,
      <<"/","/","g","i","t","h","u","b",".","c","o","m">>,
      <<"/","/","g","i","t","h","u","b",".","c","o","m","m","u","n","i","t","y">>,
      <<"/","/","e","x","a","m","p","l","e",".","o","r","g">> }

\* ------------------------------------------------------------ URLs
\* The URL parser on an absolute http URL string: the hostname is what lies
\* between "http://" and the next "/", "?" or "#".
AuthorityOf(url) ==
    UpTo(SubSeq(url, Len(HttpScheme) + 3, Len(url)), {"/", "?", "#"})

\* Whether `new URL(url)` succeeds (no base): an http URL needs a host; a
\* string with another scheme (tel:, mailto:, javascript:) parses; a string
\* with no scheme throws TypeError.
URLParses(url) ==
    IF StartsWith(url, HttpScheme \o <<"/","/">>)
    THEN AuthorityOf(url) # <<>>
    ELSE Includes(UpTo(url, {"/", "?", "#"}), <<":">>)

\* new URL(url).hostname
URLHostname(url) ==
    IF StartsWith(url, HttpScheme \o <<"/","/">>) THEN AuthorityOf(url) ELSE <<>>

\* The href attribute resolved against the page's URL.
ResolveHref(attr) ==
    IF StartsWith(attr, <<"/","/">>) THEN HttpScheme \o attr
    ELSE IF StartsWith(attr, <<"/">>) THEN LocationOrigin \o attr
    ELSE IF attr = <<>> \/ StartsWith(attr, <<"#">>) THEN LocationHref \o attr
    ELSE attr

\* HTMLAnchorElement.href: the resolved URL, or the attribute as written when
\* it does not parse.
LinkHref(attr) ==
    IF URLParses(ResolveHref(attr)) THEN ResolveHref(attr) ELSE attr

\* link.matches(this.ignoreSelectors.join(','))
MatchesIgnoreSelectors(attr) ==
    \/ attr = <<"#">>
    \/ attr = <<"j","a","v","a","s","c","r","i","p","t",":","v","o","i","d","(","0",")">>
    \/ StartsWith(attr, <<"t","e","l",":">>)
    \/ StartsWith(attr, <<"m","a","i","l","t","o",":">>)
    \/ (Includes(attr, <<"#">>) /\ ~Includes(attr, <<".","h","t","m","l","#">>))

\* String.prototype.trim() === '' for the strings of this model (no blanks).
IsBlank(s) == s = <<>>

\* checkLink's isExternal, for the hostname of the link's URL.
IsExternal(hostname) ==
    /\ ~Includes(hostname, LocationHostname)
    /\ ~\E d \in 1..Len(allowedDomains) : Includes(hostname, allowedDomains[d])

\* The test of checkLink's catch: error.message.includes('Failed to fetch') ||
\* error.message.includes('NetworkError'), on the messages browsers give a
\* rejected fetch (Chrome: "Failed to fetch"; Safari: "Load failed").
IsTransportMessage(message) ==
    message \in {"Failed to fetch", "NetworkError when attempting to fetch resource."}

\* ------------------------------------------------------------ headings
\* The heading elements the document under test may hold: h1, h2, h4,
\* <div role="heading" aria-level="-1"> and <div role="heading">.
HeadingElements ==
    { [tagName |-> <<"H","1">>, hasAriaLevel |-> FALSE, ariaLevel |-> <<>>],
      [tagName |-> <<"H","2">>, hasAriaLevel |-> FALSE, ariaLevel |-> <<>>],
      [tagName |-> <<"H","4">>, hasAriaLevel |-> FALSE, ariaLevel |-> <<>>],
      [tagName |-> <<"D","I","V">>, hasAriaLevel |-> TRUE, ariaLevel |-> <<"-","1">>],
      [tagName |-> <<"D","I","V">>, hasAriaLevel |-> FALSE, ariaLevel |-> <<>>] }

DecimalDigits == <<"0","1","2","3","4","5","6","7","8","9">>

DigitValue(c) == (CHOOSE i \in 1..Len(DecimalDigits) : DecimalDigits[i] = c) - 1

RECURSIVE ParseDigits(_, _)
ParseDigits(s, acc) ==
    IF s = <<>> THEN acc ELSE ParseDigits(Tail(s), acc * 10 + DigitValue(Head(s)))

\* parseInt(s, 10) on a decimal string with an optional sign.
ParseInt(s) ==
    IF Head(s) = "-" THEN 0 - ParseDigits(Tail(s), 0) ELSE ParseDigits(s, 0)

\* The characters of the tabindex attribute values of this model.
StringChars(v) ==
    CASE v = "0" -> <<"0">>
      [] v = "-1" -> <<"-","1">>
      [] OTHER -> <<"0">>

\* heading.tagName.match(/^H[1-6]$/i)
IsHTag(tagName) ==
    /\ Len(tagName) = 2
    /\ tagName[1] \in {"H", "h"}
    /\ tagName[2] \in {"1", "2", "3", "4", "5", "6"}

\* A level that ignores aria-level: every role="heading" element is level 2.
HeadingLevelTagOnly(h) ==
    IF IsHTag(h.tagName) THEN ParseInt(<<h.tagName[2]>>) ELSE 2

\* checkHeadings' level of a heading.
HeadingLevel(h) ==
    IF IsHTag(h.tagName) THEN ParseInt(<<h.tagName[2]>>)
    ELSE IF h.hasAriaLevel THEN ParseInt(h.ariaLevel)
    ELSE 2

\* ------------------------------------------------------------ images
\* The image-like elements (img, area, input[type="image"]) the document under
\* test may hold, by the attributes checkImages reads; an attribute that is
\* absent reads as "null" (alt: hasAlt = FALSE).
\*   <img>, <img alt="">, <img alt="Image of x">, <img aria-hidden="true">,
\*   <area alt="" role="presentation">, <input type="image" role="none">
ImageElements ==
    { [tagName |-> "IMG", hasAlt |-> FALSE, alt |-> <<>>, ariaHidden |-> "null", role |-> "null"],
      [tagName |-> "IMG", hasAlt |-> TRUE, alt |-> <<>>, ariaHidden |-> "null", role |-> "null"],
      [tagName |-> "IMG", hasAlt |-> TRUE,
       alt |-> <<"I","m","a","g","e"," ","o","f"," ","x">>,
       ariaHidden |-> "null", role |-> "null"],
      [tagName |-> "IMG", hasAlt |-> FALSE, alt |-> <<>>, ariaHidden |-> "true", role |-> "null"],
      [tagName |-> "AREA", hasAlt |-> TRUE, alt |-> <<>>, ariaHidden |-> "null",
       role |-> "presentation"],
      [tagName |-> "INPUT", hasAlt |-> FALSE, alt |-> <<>>, ariaHidden |-> "null",
       role |-> "none"] }

UpperCaseLetters ==
    <<"A","B","C","D","E","F","G","H","I","J","K","L","M",
      "N","O","P","Q","R","S","T","U","V","W","X","Y","Z">>

LowerCaseLetters ==
    <<"a","b","c","d","e","f","g","h","i","j","k","l","m",
      "n","o","p","q","r","s","t","u","v","w","x","y","z">>

\* String.prototype.toLowerCase
ToLowerCase(s) ==
    [i \in 1..Len(s) |->
        IF \E k \in 1..Len(UpperCaseLetters) : UpperCaseLetters[k] = s[i]
        THEN LowerCaseLetters[CHOOSE k \in 1..Len(UpperCaseLetters) : UpperCaseLetters[k] = s[i]]
        ELSE s[i]]

\* checkImages' isDecorative, seeing only aria-hidden.
IsDecorativeHiddenOnly(img) == img.ariaHidden = "true"

\* checkImages' isDecorative
IsDecorative(img) ==
    \/ img.ariaHidden = "true"
    \/ img.role = "presentation"
    \/ img.role = "none"

\* checkImages: `alt` is truthy (a non-empty string).
AltTruthy(img) == img.hasAlt /\ img.alt # <<>>

\* checkImages: alt.toLowerCase().includes('image of') || ...
IsSuspiciousAlt(alt) ==
    \/ Includes(ToLowerCase(alt), <<"i","m","a","g","e"," ","o","f">>)
    \/ Includes(ToLowerCase(alt), <<"p","i","c","t","u","r","e"," ","o","f">>)
    \/ Includes(ToLowerCase(alt), <<"g","r","a","p","h","i","c"," ","o","f">>)

\* ------------------------------------------------------------ state
VARIABLES
    engine,        \* which checker's instance this page session exercises
    document,      \* the page: its anchors and headings (document order), its
                   \* element count, and what has been appended to document.body
                   \* and document.head
    fault,         \* the check whose DOM / Performance API call raises in this
                   \* browser ("none": every call succeeds)
    renderFault,   \* whether building the results panel raises in this browser
    running,       \* the call executing on the JavaScript thread; 0: event loop idle
    pc,            \* per call of the run method, the statement it is at
    executed,      \* per call, the checks that have returned, in order
    results,       \* this.results of the instance
    filteredLinks, \* checkAllLinks' filteredLinks (indices into document.anchors)
    idx,           \* position of the for-of loop over filteredLinks
    linkInfo,      \* checkLink's linkInfo
    response,      \* checkLink's response
    domainCheck,   \* checkLink's domainCheck (the response of the fallback fetch)
    error,         \* the error a catch clause of the call has caught or will catch
    seen,          \* per call, what its caller has read from this.results after
                   \* the call ended: the types of the findings, by bucket
    nav,           \* the mobile navigation: the toggle's aria-expanded, the
                   \* collapse element's class 'show', body's overflow, main's
                   \* inert, the live region's text, the focused element
                   \* (0: none of them, 1: the toggle, 1 + i: nav link i) and
                   \* the keydown listeners trapFocus has added
    page,          \* window.location (hostname, search) and document.readyState
    highlight,     \* the element a finding of the panel points at: its inline
                   \* style.outline, the outline the page gave it, the pending
                   \* highlight timers (each with the outline it will set), the
                   \* clicks so far and whether the pointer is over the finding
    locator,       \* the selector resolver at work: the element(s) it was given,
                   \* the paths it returned, and what querySelector finds for
                   \* the first path
    inflight,      \* fetch requests not yet settled
    requests       \* every fetch request issued so far

vars ==
    <<engine, document, fault, renderFault, running, pc, executed, results,
      filteredLinks, idx, linkInfo, response, domainCheck, error, seen,
      highlight, page, nav, locator, inflight, requests>>

\* Sequences over S of length at most n.
SeqsUpTo(S, n) == UNION {[1..k -> S] : k \in 0..n}

\* The elements of a sequence.
Range(s) == {s[i] : i \in 1..Len(s)}

\* The checks of each runAllChecks, in call order.
A11yChecks ==
    <<"checkImages", "checkForms", "checkHeadings", "checkLandmarks",
      "checkInteractiveElements", "checkAria", "checkContrast",
      "checkKeyboardNavigation">>

PerfChecks ==
    <<"checkImages", "checkRenderBlocking", "checkDomSize", "checkAssets",
      "checkFonts", "checkThirdParty", "checkCaching", "calculateMetrics">>

\* The statement after check c in a list of checks.
AfterCheck(checks, c) ==
    LET k == CHOOSE i \in 1..Len(checks) : checks[i] = c
    IN  IF k < Len(checks) THEN checks[k + 1] ELSE "showResults"

\* this.thresholds.domSize
domSize == 1500

\* The constructors' this.results
A11yResults ==
    [errors |-> <<>>, warnings |-> <<>>, notices |-> <<>>, contrastIssues |-> <<>>,
     keyboardIssues |-> <<>>, ariaIssues |-> <<>>, headingStructure |-> <<>>]

PerfResults ==
    [issues |-> <<>>, warnings |-> <<>>, notices |-> <<>>, metrics |-> <<>>]

LinkResults ==
    [total |-> 0, internal |-> 0, external |-> 0, broken |-> <<>>,
     emptyHrefs |-> <<>>, samePage |-> <<>>, status |-> "ready",
     error |-> "undefined"]

\* The locals of a call outside checkLink.
NoLinkInfo == [link |-> 0, href |-> <<>>, isExternal |-> FALSE, status |-> "none"]

NoResponse == [ok |-> FALSE, status |-> "none"]

\* How a fetch settles: with a response, whose ok the browser derives from
\* its status (200-299), or with a rejection carrying a message.
FetchOutcomes ==
    { [kind |-> "response", ok |-> TRUE, status |-> "200", message |-> ""],
      [kind |-> "response", ok |-> FALSE, status |-> "404", message |-> ""],
      [kind |-> "response", ok |-> FALSE, status |-> "500", message |-> ""],
      [kind |-> "reject", ok |-> FALSE, status |-> "none", message |-> "Failed to fetch"],
      [kind |-> "reject", ok |-> FALSE, status |-> "none", message |-> "Load failed"] }

\* createTab's rows for the items of a category: an item with a selector
\* gets an element of the panel's kind (a <code> in the AccessibilityChecker's
\* panel, a <div> in the PerformanceChecker's), another item is the text of
\* its <li>. style.display is '' until a handler sets it.
TabRows(content, rowTag) ==
    [i \in 1..Len(content) |->
        [tag |-> IF "element" \in DOMAIN content[i] THEN rowTag ELSE "li",
         display |-> ""]]

\* createTab(name, content, isActive): the tab button's bottom border and the
\* tab content's display and rows.
createTab(name, content, isActive, rowTag) ==
    [name |-> name,
     border |-> IF isActive THEN "#007bff" ELSE "transparent",
     display |-> IF isActive THEN "block" ELSE "none",
     rows |-> TabRows(content, rowTag)]

\* The tabs showResults appends, in order: the LinkChecker appends its three
\* tabs; the other two append a tab only when its category has findings.
PanelTabs(id, res) ==
    IF id = "qa-link-results"
    THEN <<createTab("Broken Links", res.broken, TRUE, "li"),
           createTab("Empty Hrefs", res.emptyHrefs, FALSE, "li"),
           createTab("Same-Page Anchors", res.samePage, FALSE, "li")>>
    ELSE IF id = "perf-results"
    THEN SelectSeq(<<createTab("Critical", res.issues, TRUE, "div"),
                     createTab("Warnings", res.warnings, FALSE, "div"),
                     createTab("Notices", res.notices, FALSE, "div")>>,
                   LAMBDA t : t.rows # <<>>)
    ELSE SelectSeq(<<createTab("Errors", res.errors, TRUE, "code"),
                     createTab("Warnings", res.warnings, FALSE, "code"),
                     createTab("Notices", res.notices, FALSE, "code"),
                     createTab("Contrast", res.contrastIssues, FALSE, "code"),
                     createTab("Keyboard", res.keyboardIssues, FALSE, "code"),
                     createTab("ARIA", res.ariaIssues, FALSE, "code"),
                     createTab("Headings", res.headingStructure, FALSE, "code")>>,
                   LAMBDA t : t.rows # <<>>)

\* showResults appends the panel (with its tabs; no tab clicked yet) to
\* document.body and its style block to document.head.
ShowResults(doc, id, r, res) ==
    [doc EXCEPT !.body = Append(@, [id |-> id, by |-> r, tabs |-> PanelTabs(id, res),
                                    clicked |-> 0]),
                !.head = Append(@, [style |-> id, by |-> r])]

\* ------------------------------------------------------------ the element tree
\* A document tree is a sequence of elements in document order; an element is
\* its parent (0: the document node), its tagName and its id ("" when it has
\* none). Tag names and ids are plain identifiers.
TagNames == {"DIV", "SPAN"}

ElementIds == {"", "x", "y"}

\* Node.nodeName.toLowerCase()
NodeNameLower(tagName) == IF tagName = "DIV" THEN "div" ELSE "span"

\* The element and its ancestors.
RECURSIVE AncestorsOrSelf(_, _)
AncestorsOrSelf(parent, i) ==
    IF i = 0 THEN {} ELSE {i} \cup AncestorsOrSelf(parent, parent[i])

\* The parent functions of the trees of n elements listed in document order:
\* the first element is the root, and each later one is a child of the
\* element before it or of one of its ancestors.
ParentsOf(n) ==
    {parent \in [1..n -> 0..(n - 1)] :
        /\ parent[1] = 0
        /\ \A i \in 2..n : parent[i] \in AncestorsOrSelf(parent, i - 1)}

\* The document trees of n elements; no id is carried by two elements.
TreesOf(n) ==
    {[i \in 1..n |-> [parent |-> parent[i], tagName |-> tags[i], id |-> ids[i]]] :
        parent \in ParentsOf(n),
        tags \in [1..n -> TagNames],
        ids \in {f \in [1..n -> ElementIds] :
                    \A i, j \in 1..n : (i # j /\ f[i] # "") => f[i] # f[j]}}

DocumentTrees == UNION {TreesOf(n) : n \in 1..MaxNodes}

\* Element.previousElementSibling (0: null)
PreviousElementSibling(tree, i) ==
    LET before == {j \in 1..(i - 1) : tree[j].parent = tree[i].parent}
    IN  IF before = {} THEN 0 ELSE CHOOSE j \in before : \A k \in before : k <= j

\* ------------------------------------------------------------ selector resolver
\* getSelector's inner while loop, from `sibling` on: the final siblingCount
\* and siblingIndex.
RECURSIVE SiblingScan(_, _, _, _, _)
SiblingScan(tree, current, sibling, siblingCount, siblingIndex) ==
    IF sibling = 0
    THEN [siblingCount |-> siblingCount, siblingIndex |-> siblingIndex]
    ELSE IF NodeNameLower(tree[sibling].tagName) = NodeNameLower(tree[current].tagName)
    THEN SiblingScan(tree, current, PreviousElementSibling(tree, sibling),
                     siblingCount + 1,
                     IF sibling = current THEN siblingCount ELSE siblingIndex)
    ELSE SiblingScan(tree, current, PreviousElementSibling(tree, sibling),
                     siblingCount, siblingIndex)

\* A resolver that never takes the id branch.
IdIgnored(node) == FALSE

\* if (current.id)
HasId(node) == node.id # ""

\* One segment of the path: 'tag#id', 'tag:nth-of-type(k)' or 'tag', as the
\* record of its tag, its id ("": none) and its k (0: none).
Segment(tree, current) ==
    IF HasId(tree[current])
    THEN [tag |-> NodeNameLower(tree[current].tagName), id |-> tree[current].id, nth |-> 0]
    ELSE LET scan == SiblingScan(tree, current, current, 0, 0)
         IN  [tag |-> NodeNameLower(tree[current].tagName), id |-> "",
              nth |-> IF scan.siblingCount > 1 THEN scan.siblingIndex + 1 ELSE 0]

\* getSelector / getElementSelector: the path of el, as the sequence of its
\* segments (joined by ' > ' in the code); the walk ends after an element
\* with an id, or above the root.
RECURSIVE GetSelector(_, _)
GetSelector(tree, current) ==
    IF current = 0 THEN <<>>
    ELSE IF HasId(tree[current]) THEN <<Segment(tree, current)>>
    ELSE GetSelector(tree, tree[current].parent) \o <<Segment(tree, current)>>

\* The :nth-of-type index of an element: its position among the siblings of
\* its type.
NthOfType(tree, i) ==
    1 + Cardinality({j \in 1..(i - 1) :
            /\ tree[j].parent = tree[i].parent
            /\ NodeNameLower(tree[j].tagName) = NodeNameLower(tree[i].tagName)})

\* Whether element i matches the compound selector of one segment.
MatchesSegment(tree, i, segment) ==
    /\ NodeNameLower(tree[i].tagName) = segment.tag
    /\ segment.id # "" => tree[i].id = segment.id
    /\ segment.nth # 0 => NthOfType(tree, i) = segment.nth

\* Whether element i matches the first k segments joined by the child
\* combinator.
RECURSIVE MatchesPath(_, _, _, _)
MatchesPath(tree, i, path, k) ==
    /\ i # 0
    /\ MatchesSegment(tree, i, path[k])
    /\ k > 1 => MatchesPath(tree, tree[i].parent, path, k - 1)

\* document.querySelector(path): the first match in document order (0: null).
QuerySelector(tree, path) ==
    LET matches == {i \in 1..Len(tree) : MatchesPath(tree, i, path, Len(path))}
    IN  IF path = <<>> \/ matches = {} THEN 0
        ELSE CHOOSE i \in matches : \A j \in matches : i <= j

\* The resolver before any call.
NoLocator ==
    [step |-> "idle", el |-> 0, other |-> 0, path |-> <<>>, otherPath |-> <<>>,
     found |-> 0]

\* A check resolves the selectors of two elements of the document (the
\* `selector` of two findings).
ResolveSelectors ==
    /\ engine = "selector"
    /\ locator.step = "idle"
    /\ \E el, other \in 1..Len(document.tree) :
          locator' = [locator EXCEPT
                !.step = "resolved", !.el = el, !.other = other,
                !.path = GetSelector(document.tree, el),
                !.otherPath = GetSelector(document.tree, other)]
    /\ UNCHANGED <<engine, nav, page, highlight, seen, document, fault, renderFault, running, pc, executed,
                   results, filteredLinks, idx, linkInfo, response, domainCheck,
                   error, inflight, requests>>

\* The click handler of a finding looks its selector up:
\* document.querySelector(item.selector).
LocateSelector ==
    /\ engine = "selector"
    /\ locator.step = "resolved"
    /\ locator' = [locator EXCEPT
            !.step = "located",
            !.found = QuerySelector(document.tree, locator.path)]
    /\ UNCHANGED <<engine, nav, page, highlight, seen, document, fault, renderFault, running, pc, executed,
                   results, filteredLinks, idx, linkInfo, response, domainCheck,
                   error, inflight, requests>>

\* ------------------------------------------------------------ AccessibilityChecker
\* checkHeadings: the 'Skipped heading level' warnings, in document order.
RECURSIVE SkippedHeadings(_, _, _)
SkippedHeadings(headings, index, previousLevel) ==
    IF index > Len(headings) THEN <<>>
    ELSE LET level == HeadingLevel(headings[index])
         IN  (IF index > 1 /\ level > previousLevel + 1
              THEN <<[type |-> "Skipped heading level", element |-> index,
                      from |-> previousLevel, to |-> level]>>
              ELSE <<>>)
             \o SkippedHeadings(headings, index + 1, level)

\* checkHeadings: the 'Multiple h1 elements' notice.
MultipleH1(headings) ==
    LET h1Count == Cardinality({i \in 1..Len(headings) :
                        headings[i].tagName \in {<<"H","1">>, <<"h","1">>}})
    IN  IF h1Count > 1
        THEN <<[type |-> "Multiple h1 elements", count |-> h1Count]>>
        ELSE <<>>

\* checkImages: the findings of one bucket, in document order. The callback
\* returns early on a decorative image; `!alt && alt !== ''` is the absent
\* attribute.
RECURSIVE ImageFindings(_, _, _)
ImageFindings(images, index, bucket) ==
    IF index > Len(images) THEN <<>>
    ELSE LET img == images[index]
             found ==
                IF IsDecorative(img) THEN <<>>
                ELSE IF bucket = "errors" /\ ~AltTruthy(img) /\ ~img.hasAlt
                THEN <<[type |-> "Missing alt attribute", element |-> index]>>
                ELSE IF bucket = "warnings" /\ ~(~AltTruthy(img) /\ ~img.hasAlt)
                        /\ img.hasAlt /\ img.alt = <<>> /\ ~IsDecorative(img)
                THEN <<[type |-> "Empty alt on non-decorative image", element |-> index]>>
                ELSE IF bucket = "notices" /\ AltTruthy(img) /\ IsSuspiciousAlt(img.alt)
                THEN <<[type |-> "Suspicious alt text", element |-> index]>>
                ELSE <<>>
         IN  found \o ImageFindings(images, index + 1, bucket)

\* 'aria-'
AriaPrefix == <<"a","r","i","a","-">>

\* checkAria's validAriaAttrs
validAriaAttrs ==
    { AriaPrefix \o <<"a","c","t","i","v","e","d","e","s","c","e","n","d","a","n","t">>,
      AriaPrefix \o <<"a","t","o","m","i","c">>,
      AriaPrefix \o <<"a","u","t","o","c","o","m","p","l","e","t","e">>,
      AriaPrefix \o <<"b","u","s","y">>,
      AriaPrefix \o <<"c","h","e","c","k","e","d">>,
      AriaPrefix \o <<"c","o","l","c","o","u","n","t">>,
      AriaPrefix \o <<"c","o","l","i","n","d","e","x">>,
      AriaPrefix \o <<"c","o","l","s","p","a","n">>,
      AriaPrefix \o <<"c","o","n","t","r","o","l","s">>,
      AriaPrefix \o <<"c","u","r","r","e","n","t">>,
      AriaPrefix \o <<"d","e","s","c","r","i","b","e","d","b","y">>,
      AriaPrefix \o <<"d","e","t","a","i","l","s">>,
      AriaPrefix \o <<"d","i","s","a","b","l","e","d">>,
      AriaPrefix \o <<"d","r","o","p","e","f","f","e","c","t">>,
      AriaPrefix \o <<"e","r","r","o","r","m","e","s","s","a","g","e">>,
      AriaPrefix \o <<"e","x","p","a","n","d","e","d">>,
      AriaPrefix \o <<"f","l","o","w","t","o">>,
      AriaPrefix \o <<"g","r","a","b","b","e","d">>,
      AriaPrefix \o <<"h","a","s","p","o","p","u","p">>,
      AriaPrefix \o <<"h","i","d","d","e","n">>,
      AriaPrefix \o <<"i","n","v","a","l","i","d">>,
      AriaPrefix \o <<"k","e","y","s","h","o","r","t","c","u","t","s">>,
      AriaPrefix \o <<"l","a","b","e","l">>,
      AriaPrefix \o <<"l","a","b","e","l","l","e","d","b","y">>,
      AriaPrefix \o <<"l","e","v","e","l">>,
      AriaPrefix \o <<"l","i","v","e">>,
      AriaPrefix \o <<"m","o","d","a","l">>,
      AriaPrefix \o <<"m","u","l","t","i","l","i","n","e">>,
      AriaPrefix \o <<"m","u","l","t","i","s","e","l","e","c","t","a","b","l","e">>,
      AriaPrefix \o <<"o","r","i","e","n","t","a","t","i","o","n">>,
      AriaPrefix \o <<"o","w","n","s">>,
      AriaPrefix \o <<"p","l","a","c","e","h","o","l","d","e","r">>,
      AriaPrefix \o <<"p","o","s","i","n","s","e","t">>,
      AriaPrefix \o <<"p","r","e","s","s","e","d">>,
      AriaPrefix \o <<"r","e","a","d","o","n","l","y">>,
      AriaPrefix \o <<"r","e","l","e","v","a","n","t">>,
      AriaPrefix \o <<"r","e","q","u","i","r","e","d">>,
      AriaPrefix \o <<"r","o","l","e","d","e","s","c","r","i","p","t","i","o","n">>,
      AriaPrefix \o <<"r","o","w","c","o","u","n","t">>,
      AriaPrefix \o <<"r","o","w","i","n","d","e","x">>,
      AriaPrefix \o <<"r","o","w","s","p","a","n">>,
      AriaPrefix \o <<"s","e","l","e","c","t","e","d">>,
      AriaPrefix \o <<"s","e","t","s","i","z","e">>,
      AriaPrefix \o <<"s","o","r","t">>,
      AriaPrefix \o <<"v","a","l","u","e","m","a","x">>,
      AriaPrefix \o <<"v","a","l","u","e","m","i","n">>,
      AriaPrefix \o <<"v","a","l","u","e","n","o","w">>,
      AriaPrefix \o <<"v","a","l","u","e","t","e","x","t">> }

\* this.ariaRoleRequirements, for the roles of this model's elements.
ariaRoleRequirements(role) ==
    CASE role \in {"button", "link"} ->
            <<AriaPrefix \o <<"l","a","b","e","l">>, AriaPrefix \o <<"l","a","b","e","l","l","e","d","b","y">>, <<"t","i","t","l","e">>>>
      [] role = "tab" -> <<AriaPrefix \o <<"s","e","l","e","c","t","e","d">>>>
      [] OTHER -> <<>>

\* checkAria's and isInteractiveElement's interactiveRoles
interactiveRoles == {"button", "link", "checkbox", "radio", "tab", "menuitem"}

\* The elements of the document that carry a role, a tabindex or aria
\* attributes ('' for role and tabindex: the attribute is absent):
\*   <div role=button>, <span role=button aria-label>,
\*   <div role=button tabindex=0 aria-label>, <li role=tab aria-selected>,
\*   <div aria-foo>, <div aria- aria-foo>, <button>, <div aria-label>,
\*   and a hidden <span role=link tabindex=0 title>
AriaElements ==
    { [tagName |-> "DIV", role |-> "button", tabindex |-> "", attributes |-> <<>>, hidden |-> FALSE],
      [tagName |-> "SPAN", role |-> "button", tabindex |-> "",
       attributes |-> <<AriaPrefix \o <<"l","a","b","e","l">>>>, hidden |-> FALSE],
      [tagName |-> "DIV", role |-> "button", tabindex |-> "0",
       attributes |-> <<AriaPrefix \o <<"l","a","b","e","l">>>>, hidden |-> FALSE],
      [tagName |-> "LI", role |-> "tab", tabindex |-> "",
       attributes |-> <<AriaPrefix \o <<"s","e","l","e","c","t","e","d">>>>, hidden |-> FALSE],
      [tagName |-> "DIV", role |-> "", tabindex |-> "",
       attributes |-> <<AriaPrefix \o <<"f","o","o">>>>, hidden |-> FALSE],
      [tagName |-> "DIV", role |-> "", tabindex |-> "",
       attributes |-> <<AriaPrefix, AriaPrefix \o <<"f","o","o">>>>, hidden |-> FALSE],
      [tagName |-> "BUTTON", role |-> "", tabindex |-> "", attributes |-> <<>>, hidden |-> FALSE],
      [tagName |-> "DIV", role |-> "", tabindex |-> "",
       attributes |-> <<AriaPrefix \o <<"l","a","b","e","l">>>>, hidden |-> FALSE],
      [tagName |-> "SPAN", role |-> "link", tabindex |-> "0",
       attributes |-> <<<<"t","i","t","l","e">>>>, hidden |-> TRUE] }

\* el.hasAttribute(name), for the attributes other than role and tabindex.
HasAttribute(el, name) ==
    \E k \in 1..Len(el.attributes) : el.attributes[k] = name

\* el.tabIndex: the tabindex attribute as an integer, and without one 0 for
\* the elements that take focus by default and -1 for the others.
TabIndex(el) ==
    IF el.tabindex # "" THEN ParseInt(StringChars(el.tabindex))
    ELSE IF el.tagName \in {"A", "BUTTON", "INPUT", "SELECT", "TEXTAREA"} THEN 0
    ELSE -1

\* this.isInteractiveElement(el)
isInteractiveElement(el) ==
    \/ el.tagName \in {"A", "BUTTON", "INPUT", "SELECT", "TEXTAREA"}
    \/ (el.tagName = "DIV" /\ el.role # "" /\ el.role \in interactiveRoles)
    \/ TabIndex(el) >= 0

\* el.matches(this.interactiveElements.join(','))
MatchesInteractiveElements(el) ==
    \/ el.tagName \in {"BUTTON", "INPUT", "SELECT", "TEXTAREA"}
    \/ el.tabindex # ""
    \/ el.role \in interactiveRoles

\* checkInteractiveElements' callback on element i: what it pushes to bucket.
InteractiveFindings(nodes, i, bucket) ==
    LET el == nodes[i]
    IN  IF ~MatchesInteractiveElements(el) \/ el.hidden \/ TabIndex(el) < 0 THEN <<>>
        ELSE IF bucket = "errors"
        THEN IF el.tagName = "DIV" /\ el.role = "button" /\ el.tabindex = ""
             THEN <<[type |-> "Missing tabindex", element |-> i]>> ELSE <<>>
        ELSE IF el.role # "" /\ ~isInteractiveElement(el)
             THEN <<[type |-> "Non-interactive element with interactive role",
                     element |-> i]>>
             ELSE <<>>

\* checkAria's first loop on element i: one error per required attribute
\* that the element lacks.
RequiredAttributeFindings(nodes, i) ==
    LET required == ariaRoleRequirements(nodes[i].role)
        missing == SelectSeq(required, LAMBDA a : ~HasAttribute(nodes[i], a))
    IN  [k \in 1..Len(missing) |->
            [type |-> "Missing required ARIA attribute", element |-> i,
             attribute |-> missing[k]]]

\* checkAria's second loop on element i: document.querySelectorAll('[aria-]')
\* selects the elements that have an attribute named 'aria-'.
InvalidAriaFindings(nodes, i) ==
    IF ~HasAttribute(nodes[i], AriaPrefix) THEN <<>>
    ELSE LET invalid == SelectSeq(nodes[i].attributes,
                LAMBDA a : StartsWith(a, AriaPrefix) /\ a \notin validAriaAttrs)
         IN  [k \in 1..Len(invalid) |->
                [type |-> "Invalid ARIA attribute", element |-> i,
                 attribute |-> invalid[k]]]

\* checkAria's third loop on element i.
RoleFindings(nodes, i) ==
    IF /\ nodes[i].tagName \in {"DIV", "SPAN", "P", "H1", "H2", "H3", "H4", "H5", "H6"}
       /\ nodes[i].role # ""
       /\ nodes[i].role \in interactiveRoles
       /\ ~isInteractiveElement(nodes[i])
    THEN <<[type |-> "Non-interactive element with interactive role", element |-> i]>>
    ELSE <<>>

\* A loop of checkInteractiveElements or checkAria over the elements from i
\* on: all that its callbacks push to bucket.
RECURSIVE ForEachNode(_, _, _, _)
ForEachNode(nodes, i, loop, bucket) ==
    IF i > Len(nodes) THEN <<>>
    ELSE (CASE loop = "interactive" -> InteractiveFindings(nodes, i, bucket)
            [] loop = "required" -> RequiredAttributeFindings(nodes, i)
            [] loop = "invalid" -> InvalidAriaFindings(nodes, i)
            [] OTHER -> RoleFindings(nodes, i))
         \o ForEachNode(nodes, i + 1, loop, bucket)

\* What a check of the AccessibilityChecker that returns leaves in this.results.
A11yCheck(res, doc, c) ==
    IF c = "checkImages"
    THEN [res EXCEPT
            !.errors = @ \o ImageFindings(doc.images, 1, "errors"),
            !.warnings = @ \o ImageFindings(doc.images, 1, "warnings"),
            !.notices = @ \o ImageFindings(doc.images, 1, "notices")]
    ELSE IF c = "checkHeadings"
    THEN [res EXCEPT
            !.warnings = @ \o SkippedHeadings(doc.headings, 1, 0),
            !.notices = @ \o MultipleH1(doc.headings),
            !.headingStructure =
                [i \in 1..Len(doc.headings) |->
                    [element |-> i, level |-> HeadingLevel(doc.headings[i])]]]
    ELSE IF c = "checkInteractiveElements"
    THEN [res EXCEPT
            !.errors = @ \o ForEachNode(doc.nodes, 1, "interactive", "errors"),
            !.warnings = @ \o ForEachNode(doc.nodes, 1, "interactive", "warnings")]
    ELSE IF c = "checkAria"
    THEN [res EXCEPT
            !.errors = @ \o ForEachNode(doc.nodes, 1, "required", "errors"),
            !.warnings = @ \o ForEachNode(doc.nodes, 1, "invalid", "warnings")
                           \o ForEachNode(doc.nodes, 1, "roles", "warnings")]
    ELSE res

\* showResults' headings tab: '#'.repeat(item.level) raises RangeError on a
\* negative level.
HeadingsTabRaises(res) ==
    \E i \in 1..Len(res.headingStructure) : res.headingStructure[i].level < 0

\* The DOMContentLoaded listener (or any caller) calls runAllChecks.
A11yRunAllChecks(r) ==
    /\ engine = "a11y"
    /\ ListenerRuns(page, engine)
    /\ running = 0
    /\ pc[r] = "idle"
    /\ \A q \in Runs : q < r => pc[q] # "idle"
    /\ running' = r
    /\ pc' = [pc EXCEPT ![r] = A11yChecks[1]]
    /\ UNCHANGED <<engine, nav, page, highlight, seen, locator, domainCheck, document, fault, renderFault, executed, results,
                   filteredLinks, idx, linkInfo, response, error, inflight, requests>>

\* One check of runAllChecks: it returns, or it raises and, runAllChecks
\* having no try, the error goes to the caller.
A11yRunCheck(r) ==
    /\ engine = "a11y"
    /\ running = r
    /\ pc[r] \in Range(A11yChecks)
    /\ \/ /\ fault # pc[r]
          /\ results' = A11yCheck(results, document, pc[r])
          /\ executed' = [executed EXCEPT ![r] = Append(@, pc[r])]
          /\ pc' = [pc EXCEPT ![r] = AfterCheck(A11yChecks, pc[r])]
          /\ UNCHANGED <<running, error>>
       \/ /\ fault = pc[r]
          /\ error' = [error EXCEPT ![r] = "check failed"]
          /\ pc' = [pc EXCEPT ![r] = "threw"]
          /\ running' = 0
          /\ UNCHANGED <<results, executed>>
    /\ UNCHANGED <<engine, nav, page, highlight, seen, locator, domainCheck, document, fault, renderFault, filteredLinks, idx,
                   linkInfo, response, inflight, requests>>

\* this.showResults() at the end of runAllChecks.
A11yShowResults(r) ==
    /\ engine = "a11y"
    /\ running = r
    /\ pc[r] = "showResults"
    /\ \/ /\ ~HeadingsTabRaises(results)
          /\ document' = ShowResults(document, "a11y-results", r, results)
          /\ pc' = [pc EXCEPT ![r] = "returned"]
          /\ UNCHANGED error
       \/ /\ HeadingsTabRaises(results)
          /\ error' = [error EXCEPT ![r] = "Invalid count value"]
          /\ pc' = [pc EXCEPT ![r] = "threw"]
          /\ UNCHANGED document
    /\ running' = 0
    /\ UNCHANGED <<engine, nav, page, highlight, seen, locator, domainCheck, fault, renderFault, executed, results, filteredLinks,
                   idx, linkInfo, response, inflight, requests>>

\* ------------------------------------------------------------ PerformanceChecker
\* A test that also warns at the threshold.
ReachesDomSize(totalNodes) == totalNodes >= domSize

\* checkDomSize: totalNodes > this.thresholds.domSize
ExceedsDomSize(totalNodes) == totalNodes > domSize

\* this.thresholds.cssSize and jsSize (KB)
cssSize == 50

jsSize == 200

\* The transfer sizes (bytes) of the resource entries considered: around each
\* threshold, and 0 (a transfer the browser does not report).
TransferSizes == {0, 51200, 51201, 51712, 204801, 205312}

\* The URLs (resource.name) of the resource entries considered:
\*   http://localhost/s.css, http://localhost/s.css?v=2, http://localhost/a.js,
\*   http://localhost/i.PNG?v=2, http://example.org/s.css?v=2
ResourceNames ==
    { LocationOrigin \o <<"/","s",".","c","s","s">>,
      LocationOrigin \o <<"/","s",".","c","s","s","?","v","=","2">>,
      LocationOrigin \o <<"/","a",".","j","s">>,
      LocationOrigin \o <<"/","i",".","P","N","G","?","v","=","2">>,
      HttpScheme \o <<"/","/","e","x","a","m","p","l","e",".","o","r","g",
                       "/","s",".","c","s","s","?","v","=","2">> }

\* The entries of performance.getEntriesByType('resource')
ResourceEntries == [name : ResourceNames, transferSize : TransferSizes]

\* url.split(sep).pop(): what follows the last sep (all of url if none).
RECURSIVE LastPiece(_, _)
LastPiece(url, sep) ==
    IF \E i \in 1..Len(url) : url[i] = sep
    THEN LastPiece(SubSeq(url, (CHOOSE i \in 1..Len(url) : url[i] = sep
                                    /\ \A j \in 1..(i - 1) : url[j] # sep) + 1, Len(url)), sep)
    ELSE url

\* const extension = url.split('.').pop().toLowerCase()
Extension(url) == ToLowerCase(LastPiece(url, "."))

\* checkCaching's cacheable
cacheable ==
    { <<"c","s","s">>, <<"j","s">>, <<"w","o","f","f">>, <<"w","o","f","f","2">>,
      <<"t","t","f">>, <<"e","o","t">>, <<"p","n","g">>, <<"j","p","g">>,
      <<"j","p","e","g">>, <<"w","e","b","p">>, <<"s","v","g">>, <<"g","i","f">> }

\* url.startsWith('data:') || !url.includes(window.location.hostname)
SkippedResource(url) ==
    \/ StartsWith(url, <<"d","a","t","a",":">>)
    \/ ~Includes(url, page.hostname)

\* Math.round(n / 1024) for n >= 0
RoundKB(n) == (2 * n + 1024) \div 2048

\* checkAssets' test for the unminified asset warning.
IsUnminified(url) ==
    /\ Extension(url) \in {<<"j","s">>, <<"c","s","s">>}
    /\ ~Includes(url, <<".","m","i","n",".">>)
    /\ ~Includes(url, <<"d","e","b","u","g">>)
    /\ ~Includes(url, <<"q","a","-">>)

\* checkAssets' callback on resource i: the warnings it pushes.
AssetWarnings(resources, i) ==
    LET url == resources[i].name
        sizeKB == RoundKB(resources[i].transferSize)
    IN  IF SkippedResource(url) THEN <<>>
        ELSE (IF IsUnminified(url)
              THEN <<[type |-> "Unminified asset", resource |-> i]>> ELSE <<>>)
             \o (IF resources[i].transferSize > 0
                 THEN IF Extension(url) = <<"c","s","s">> /\ sizeKB > cssSize
                      THEN <<[type |-> "Large CSS file", resource |-> i, sizeKB |-> sizeKB]>>
                      ELSE IF Extension(url) = <<"j","s">> /\ sizeKB > jsSize
                      THEN <<[type |-> "Large JS file", resource |-> i, sizeKB |-> sizeKB]>>
                      ELSE <<>>
                 ELSE <<>>)

\* checkCaching's callback on resource i: the warnings it pushes.
CachingWarnings(resources, i) ==
    LET url == resources[i].name
    IN  IF Extension(url) \notin cacheable THEN <<>>
        ELSE IF SkippedResource(url) THEN <<>>
        ELSE IF Includes(url, <<"?">>) \/ Includes(url, <<"&">>)
        THEN <<[type |-> "Cache-busting parameters", resource |-> i]>>
        ELSE <<>>

\* resources.forEach(callback) from entry i on: all that the callbacks push.
RECURSIVE ForEachResource(_, _, _)
ForEachResource(resources, i, check) ==
    IF i > Len(resources) THEN <<>>
    ELSE (IF check = "checkAssets" THEN AssetWarnings(resources, i)
          ELSE CachingWarnings(resources, i))
         \o ForEachResource(resources, i + 1, check)

\* checkThirdParty's thirdParty: the entries of another hostname.
ThirdParty(resources) ==
    SelectSeq([i \in 1..Len(resources) |-> i],
              LAMBDA i : URLHostname(resources[i].name) # page.hostname)

\* What a check of the PerformanceChecker that returns leaves in this.results.
PerfCheck(res, doc, c) ==
    IF c = "checkRenderBlocking"
    THEN [res EXCEPT
            !.issues = @ \o [k \in 1..doc.scripts |->
                                [type |-> "Render-blocking JS", element |-> k]]]
    ELSE IF c = "checkDomSize"
    THEN [res EXCEPT
            !.metrics = ("domSize" :> doc.elements) @@ @,
            !.warnings = IF ExceedsDomSize(doc.elements)
                         THEN Append(@, [type |-> "Large DOM size", nodes |-> doc.elements])
                         ELSE @]
    ELSE IF c \in {"checkAssets", "checkCaching"}
    THEN [res EXCEPT !.warnings = @ \o ForEachResource(doc.resources, 1, c)]
    ELSE IF c = "checkThirdParty" /\ ThirdParty(doc.resources) # <<>>
    THEN [res EXCEPT
            !.metrics = ("thirdPartyCount" :> Len(ThirdParty(doc.resources))) @@ @,
            !.notices = Append(@, [type |-> "Third-party resources",
                                   details |-> ThirdParty(doc.resources)])]
    ELSE res

\* The DOMContentLoaded listener (or any caller) calls runAllChecks.
PerfRunAllChecks(r) ==
    /\ engine = "perf"
    /\ ListenerRuns(page, engine)
    /\ running = 0
    /\ pc[r] = "idle"
    /\ \A q \in Runs : q < r => pc[q] # "idle"
    /\ running' = r
    /\ pc' = [pc EXCEPT ![r] = PerfChecks[1]]
    /\ UNCHANGED <<engine, nav, page, highlight, seen, locator, domainCheck, document, fault, renderFault, executed, results,
                   filteredLinks, idx, linkInfo, response, error, inflight, requests>>

\* `await this.checkImages()`: checkImages runs to its end or raises, and
\* runAllChecks waits for its promise either way.
PerfCheckImages(r) ==
    /\ engine = "perf"
    /\ running = r
    /\ pc[r] = "checkImages"
    /\ \/ /\ fault # "checkImages"
          /\ results' = PerfCheck(results, document, "checkImages")
          /\ executed' = [executed EXCEPT ![r] = Append(@, "checkImages")]
          /\ pc' = [pc EXCEPT ![r] = "awaitCheckImages"]
          /\ UNCHANGED error
       \/ /\ fault = "checkImages"
          /\ error' = [error EXCEPT ![r] = "check failed"]
          /\ pc' = [pc EXCEPT ![r] = "awaitCheckImagesRejected"]
          /\ UNCHANGED <<results, executed>>
    /\ running' = 0
    /\ UNCHANGED <<engine, nav, page, highlight, seen, locator, domainCheck, document, fault, renderFault, filteredLinks, idx,
                   linkInfo, response, inflight, requests>>

\* runAllChecks resumes after the await: in the try block, or in its catch.
PerfResume(r) ==
    /\ engine = "perf"
    /\ running = 0
    /\ \/ /\ pc[r] = "awaitCheckImages"
          /\ pc' = [pc EXCEPT ![r] = AfterCheck(PerfChecks, "checkImages")]
       \/ /\ pc[r] = "awaitCheckImagesRejected"
          /\ pc' = [pc EXCEPT ![r] = "catch"]
    /\ running' = r
    /\ UNCHANGED <<engine, nav, page, highlight, seen, locator, domainCheck, document, fault, renderFault, executed, results,
                   filteredLinks, idx, linkInfo, response, error, inflight, requests>>

\* One of the synchronous checks of the try block.
PerfRunCheck(r) ==
    /\ engine = "perf"
    /\ running = r
    /\ pc[r] \in Range(PerfChecks) \ {"checkImages"}
    /\ \/ /\ fault # pc[r]
          /\ results' = PerfCheck(results, document, pc[r])
          /\ executed' = [executed EXCEPT ![r] = Append(@, pc[r])]
          /\ pc' = [pc EXCEPT ![r] = AfterCheck(PerfChecks, pc[r])]
          /\ UNCHANGED error
       \/ /\ fault = pc[r]
          /\ error' = [error EXCEPT ![r] = "check failed"]
          /\ pc' = [pc EXCEPT ![r] = "catch"]
          /\ UNCHANGED <<results, executed>>
    /\ UNCHANGED <<engine, nav, page, highlight, seen, locator, domainCheck, document, fault, renderFault, running, filteredLinks,
                   idx, linkInfo, response, inflight, requests>>

\* this.showResults() at the end of the try block.
PerfShowResults(r) ==
    /\ engine = "perf"
    /\ running = r
    /\ pc[r] = "showResults"
    /\ \/ /\ ~renderFault
          /\ document' = ShowResults(document, "perf-results", r, results)
          /\ pc' = [pc EXCEPT ![r] = "resolved"]
          /\ running' = 0
          /\ UNCHANGED error
       \/ /\ renderFault
          /\ error' = [error EXCEPT ![r] = "showResults failed"]
          /\ pc' = [pc EXCEPT ![r] = "catch"]
          /\ UNCHANGED <<document, running>>
    /\ UNCHANGED <<engine, nav, page, highlight, seen, locator, domainCheck, fault, renderFault, executed, results, filteredLinks,
                   idx, linkInfo, response, inflight, requests>>

\* The catch clause: the 'Error' issue, then this.showResults() again, outside
\* any try.
PerfCatch(r) ==
    /\ engine = "perf"
    /\ running = r
    /\ pc[r] = "catch"
    /\ results' = [results EXCEPT
            !.issues = Append(@, [type |-> "Error", message |-> error[r]])]
    /\ \/ /\ ~renderFault
          /\ document' = ShowResults(document, "perf-results", r, results')
          /\ pc' = [pc EXCEPT ![r] = "resolved"]
       \/ /\ renderFault
          /\ pc' = [pc EXCEPT ![r] = "rejected"]
          /\ UNCHANGED document
    /\ running' = 0
    /\ UNCHANGED <<engine, nav, page, highlight, seen, locator, domainCheck, fault, renderFault, executed, filteredLinks, idx,
                   linkInfo, response, error, inflight, requests>>

\* ------------------------------------------------------------ LinkChecker
\* checkAllLinks' filter callback: the anchors that are kept.
KeepsLink(attr) ==
    /\ ~MatchesIgnoreSelectors(attr)
    /\ ~(LinkHref(attr) = <<>> \/ IsBlank(LinkHref(attr)))

\* The anchors of the document as their indices, in document order.
Indices(anchors) == [i \in 1..Len(anchors) |-> i]

\* A filter that keeps every anchor.
FilterLinksAll(anchors) == Indices(anchors)

\* const filteredLinks = links.filter(...)
FilterLinks(anchors) ==
    SelectSeq(Indices(anchors), LAMBDA i : KeepsLink(anchors[i]))

\* What the filter callback pushes to results.samePage.
IsBareHash(attr) == MatchesIgnoreSelectors(attr) /\ attr = <<"#">>

SamePageEntries(anchors) ==
    LET hits == SelectSeq(Indices(anchors), LAMBDA i : IsBareHash(anchors[i]))
    IN  [k \in 1..Len(hits) |-> [link |-> hits[k], href |-> LinkHref(anchors[hits[k]])]]

\* What the filter callback pushes to results.emptyHrefs.
IsEmptyHref(attr) ==
    ~MatchesIgnoreSelectors(attr) /\ (LinkHref(attr) = <<>> \/ IsBlank(LinkHref(attr)))

EmptyHrefEntries(anchors) ==
    LET hits == SelectSeq(Indices(anchors), LAMBDA i : IsEmptyHref(anchors[i]))
    IN  [k \in 1..Len(hits) |-> [link |-> hits[k]]]

\* A fallback test that takes any response of the site root for a reachable
\* site, whatever its status.
DomainCheckAnyResponse(o) == o.kind = "response"

\* A push that puts the entry at the front of the bucket (unshift): the bucket
\* then lists the broken links in reverse document order.
PushBrokenFirst(broken, info, status, message, r) ==
    <<[link |-> info.link, href |-> info.href, isExternal |-> info.isExternal,
       status |-> status, error |-> message, by |-> r]>> \o broken

\* A push that spreads linkInfo over the new status ({status, ...linkInfo}):
\* the entry then keeps linkInfo's status 'pending'.
PushBrokenPending(broken, info, status, message, r) ==
    Append(broken, [link |-> info.link, href |-> info.href,
                    isExternal |-> info.isExternal, status |-> info.status,
                    error |-> message, by |-> r])

\* this.results.broken.push({...linkInfo, status, error}); `by` is the call that
\* created the entry (the identity of the object, not a field of it).
PushBroken(broken, info, status, message, r) ==
    Append(broken, [link |-> info.link, href |-> info.href,
                    isExternal |-> info.isExternal, status |-> status,
                    error |-> message, by |-> r])

\* A fetch in flight: who issued it, for which anchor, to which host.
Request(r, link, hostname) == [by |-> r, link |-> link, hostname |-> hostname]

\* The same request as the network sees it.
Sent(link, hostname) == [link |-> link, hostname |-> hostname]

\* A loop that stops one link early: showResults then runs with a link still
\* unchecked.
HasNextLinkButLast(r) == idx[r] < Len(filteredLinks[r])

\* Whether the for-of loop has another link.
HasNextLink(r) == idx[r] <= Len(filteredLinks[r])

\* The link the call r is checking.
CurrentLink(r) == filteredLinks[r][idx[r]]

\* checkAllLinks, from the call to the for-of loop: the reset of this.results,
\* querySelectorAll('a[href]'), and the filter.
LinkCheckAllLinks(r) ==
    /\ engine = "links"
    /\ ListenerRuns(page, engine)
    /\ running = 0
    /\ pc[r] = "idle"
    /\ \A q \in Runs : q < r => pc[q] # "idle"
    /\ results' = [results EXCEPT
            !.status = "checking",
            !.total = Len(document.anchors),
            !.internal = 0,
            !.external = 0,
            !.broken = <<>>,
            !.emptyHrefs = EmptyHrefEntries(document.anchors),
            !.samePage = SamePageEntries(document.anchors)]
    /\ filteredLinks' = [filteredLinks EXCEPT ![r] = FilterLinks(document.anchors)]
    /\ idx' = [idx EXCEPT ![r] = 1]
    /\ running' = r
    /\ pc' = [pc EXCEPT ![r] = "loop"]
    /\ UNCHANGED <<engine, nav, page, highlight, seen, locator, domainCheck, document, fault, renderFault, executed, linkInfo,
                   response, error, inflight, requests>>

\* The head of the for-of loop; after the last link, status = 'complete'.
LinkLoop(r) ==
    /\ engine = "links"
    /\ running = r
    /\ pc[r] = "loop"
    /\ \/ /\ HasNextLink(r)
          /\ pc' = [pc EXCEPT ![r] = "checkLink"]
          /\ UNCHANGED results
       \/ /\ ~HasNextLink(r)
          /\ results' = [results EXCEPT !.status = "complete"]
          /\ pc' = [pc EXCEPT ![r] = "showResults"]
    /\ UNCHANGED <<engine, nav, page, highlight, seen, locator, domainCheck, document, fault, renderFault, running, executed,
                   filteredLinks, idx, linkInfo, response, error, inflight, requests>>

\* checkLink up to its first await: new URL(link.href), isExternal, linkInfo,
\* and either the external branch or the HEAD fetch.
LinkCheckLink(r) ==
    /\ engine = "links"
    /\ running = r
    /\ pc[r] = "checkLink"
    /\ LET link == CurrentLink(r)
           href == LinkHref(document.anchors[link])
           info == [link |-> link, href |-> href,
                    isExternal |-> IsExternal(URLHostname(href)), status |-> "pending"]
       IN  \/ /\ ~URLParses(href)
              /\ error' = [error EXCEPT ![r] = "Invalid URL"]
              /\ pc' = [pc EXCEPT ![r] = "awaitCheckLinkRejected"]
              /\ UNCHANGED <<results, linkInfo, inflight, requests>>
           \/ /\ URLParses(href)
              /\ info.isExternal
              /\ results' = [results EXCEPT !.external = @ + 1]
              /\ linkInfo' = [linkInfo EXCEPT ![r] = [info EXCEPT !.status = "external"]]
              /\ pc' = [pc EXCEPT ![r] = "awaitCheckLink"]
              /\ UNCHANGED <<error, inflight, requests>>
           \/ /\ URLParses(href)
              /\ ~info.isExternal
              /\ linkInfo' = [linkInfo EXCEPT ![r] = info]
              /\ inflight' = inflight \cup {Request(r, link, URLHostname(href))}
              /\ requests' = requests \cup {Sent(link, URLHostname(href))}
              /\ pc' = [pc EXCEPT ![r] = "awaitHead"]
              /\ UNCHANGED <<results, error>>
    /\ running' = 0
    /\ UNCHANGED <<engine, nav, page, highlight, seen, locator, domainCheck, document, fault, renderFault, executed, filteredLinks,
                   idx, response>>

\* The HEAD fetch settles and checkLink runs on: to its end, or to the
\* fallback fetch('/') of its catch clause.
LinkHeadSettles(r) ==
    /\ engine = "links"
    /\ running = 0
    /\ pc[r] = "awaitHead"
    /\ \E o \in FetchOutcomes :
        LET req == Request(r, linkInfo[r].link, URLHostname(linkInfo[r].href))
        IN  \/ /\ o.kind = "response"
               /\ o.ok
               /\ response' = [response EXCEPT ![r] = [ok |-> o.ok, status |-> o.status]]
               /\ results' = [results EXCEPT !.internal = @ + 1]
               /\ linkInfo' = [linkInfo EXCEPT ![r].status = o.status]
               /\ inflight' = inflight \ {req}
               /\ pc' = [pc EXCEPT ![r] = "awaitCheckLink"]
               /\ UNCHANGED <<error, requests>>
            \/ /\ o.kind = "response"
               /\ ~o.ok
               /\ response' = [response EXCEPT ![r] = [ok |-> o.ok, status |-> o.status]]
               /\ results' = [results EXCEPT
                      !.broken = PushBroken(@, linkInfo[r], o.status, "", r)]
               /\ inflight' = inflight \ {req}
               /\ pc' = [pc EXCEPT ![r] = "awaitCheckLink"]
               /\ UNCHANGED <<linkInfo, error, requests>>
            \/ /\ o.kind = "reject"
               /\ IsTransportMessage(o.message)
               /\ error' = [error EXCEPT ![r] = o.message]
               /\ inflight' = (inflight \ {req})
                        \cup {Request(r, linkInfo[r].link, LocationHostname)}
               /\ requests' = requests \cup {Sent(linkInfo[r].link, LocationHostname)}
               /\ pc' = [pc EXCEPT ![r] = "awaitRoot"]
               /\ UNCHANGED <<results, linkInfo, response>>
            \/ /\ o.kind = "reject"
               /\ ~IsTransportMessage(o.message)
               /\ error' = [error EXCEPT ![r] = o.message]
               /\ results' = [results EXCEPT
                      !.broken = PushBroken(@, linkInfo[r], "error", o.message, r)]
               /\ inflight' = inflight \ {req}
               /\ pc' = [pc EXCEPT ![r] = "awaitCheckLink"]
               /\ UNCHANGED <<linkInfo, response, requests>>
    /\ UNCHANGED <<engine, nav, page, highlight, seen, locator, domainCheck, document, fault, renderFault, running, executed,
                   filteredLinks, idx>>

\* if (domainCheck.ok), for the way the fallback fetch has settled.
DomainCheckOk(o) == o.kind = "response" /\ o.ok

\* The fallback fetch('/') settles and checkLink runs to its end.
LinkRootSettles(r) ==
    /\ engine = "links"
    /\ running = 0
    /\ pc[r] = "awaitRoot"
    /\ \E o \in FetchOutcomes :
        /\ \/ /\ DomainCheckOk(o)
              /\ results' = [results EXCEPT !.internal = @ + 1]
              /\ linkInfo' = [linkInfo EXCEPT ![r].status = "client-side-route"]
           \/ /\ ~DomainCheckOk(o)
              /\ results' = [results EXCEPT
                     !.broken = PushBroken(@, linkInfo[r], "error", error[r], r)]
              /\ UNCHANGED linkInfo
        /\ domainCheck' = [domainCheck EXCEPT ![r] =
                IF o.kind = "response" THEN [ok |-> o.ok, status |-> o.status]
                ELSE NoResponse]
    /\ inflight' = inflight \ {Request(r, linkInfo[r].link, LocationHostname)}
    /\ pc' = [pc EXCEPT ![r] = "awaitCheckLink"]
    /\ UNCHANGED <<engine, nav, page, highlight, seen, locator, document, fault, renderFault, running, executed,
                   filteredLinks, idx, response, error, requests>>

\* `await this.checkLink(link)` resumes: with the next iteration, or, when
\* checkLink's promise was rejected, in checkAllLinks' catch clause.
\* checkLink's locals are gone.
LinkResume(r) ==
    /\ engine = "links"
    /\ running = 0
    /\ \/ /\ pc[r] = "awaitCheckLink"
          /\ idx' = [idx EXCEPT ![r] = @ + 1]
          /\ pc' = [pc EXCEPT ![r] = "loop"]
          /\ error' = [error EXCEPT ![r] = "none"]
       \/ /\ pc[r] = "awaitCheckLinkRejected"
          /\ pc' = [pc EXCEPT ![r] = "catch"]
          /\ UNCHANGED <<idx, error>>
    /\ linkInfo' = [linkInfo EXCEPT ![r] = NoLinkInfo]
    /\ response' = [response EXCEPT ![r] = NoResponse]
    /\ domainCheck' = [domainCheck EXCEPT ![r] = NoResponse]
    /\ running' = r
    /\ UNCHANGED <<engine, nav, page, highlight, seen, locator, document, fault, renderFault, executed, results,
                   filteredLinks, inflight, requests>>

\* this.showResults() at the end of checkAllLinks' try block.
LinkShowResults(r) ==
    /\ engine = "links"
    /\ running = r
    /\ pc[r] = "showResults"
    /\ \/ /\ ~renderFault
          /\ document' = ShowResults(document, "qa-link-results", r, results)
          /\ pc' = [pc EXCEPT ![r] = "resolved"]
          /\ running' = 0
          /\ UNCHANGED error
       \/ /\ renderFault
          /\ error' = [error EXCEPT ![r] = "showResults failed"]
          /\ pc' = [pc EXCEPT ![r] = "catch"]
          /\ UNCHANGED <<document, running>>
    /\ UNCHANGED <<engine, nav, page, highlight, seen, locator, domainCheck, fault, renderFault, executed, results, filteredLinks,
                   idx, linkInfo, response, inflight, requests>>

\* checkAllLinks' catch clause.
LinkCatch(r) ==
    /\ engine = "links"
    /\ running = r
    /\ pc[r] = "catch"
    /\ results' = [results EXCEPT !.status = "error", !.error = error[r]]
    /\ pc' = [pc EXCEPT ![r] = "resolved"]
    /\ running' = 0
    /\ UNCHANGED <<engine, nav, page, highlight, seen, locator, domainCheck, document, fault, renderFault, executed, filteredLinks,
                   idx, linkInfo, response, error, inflight, requests>>

\* ------------------------------------------------------------ the panel
\* The inline outline the page may have given the element ('': none).
PageOutlines == {"", "1px solid blue"}

\* The element before any interaction with the panel.
NoHighlight(outline) ==
    [outline |-> outline, original |-> outline, timers |-> <<>>, clicks |-> 0,
     hovering |-> FALSE]

\* Whether the panel lists a finding with a selector (an entry that carries
\* the handlers).
HasLocatedFinding(res) ==
    IF engine = "perf"
    THEN \E i \in 1..Len(res.issues) : "element" \in DOMAIN res.issues[i]
    ELSE \/ res.errors # <<>>
         \/ \E i \in 1..Len(res.warnings) : "element" \in DOMAIN res.warnings[i]
         \/ res.headingStructure # <<>>

\* Whether the panel is in the document.
PanelShown == document.body # <<>>

\* The outline the click handler's timer restores: prevOutline in the
\* AccessibilityChecker's panel, '' in the PerformanceChecker's.
RestoredOutline(prevOutline) ==
    IF engine = "a11y" THEN prevOutline ELSE ""

\* code.onclick: highlight the target and start the 2-second timer.
ClickFinding ==
    /\ engine \in {"a11y", "perf"}
    /\ running = 0
    /\ PanelShown
    /\ HasLocatedFinding(results)
    /\ highlight.clicks < MaxClicks
    /\ highlight' = [highlight EXCEPT
            !.outline = IF engine = "a11y" THEN "2px solid #ff0" ELSE "2px solid #f00",
            !.timers = Append(@, RestoredOutline(highlight.outline)),
            !.clicks = @ + 1]
    /\ UNCHANGED <<engine, nav, page, document, fault, renderFault, running, pc, executed,
                   results, filteredLinks, idx, linkInfo, response, domainCheck,
                   error, seen, locator, inflight, requests>>

\* The callback of the oldest pending timer runs (all delays are 2000 ms).
TimerFires ==
    /\ running = 0
    /\ highlight.timers # <<>>
    /\ highlight' = [highlight EXCEPT
            !.outline = Head(highlight.timers),
            !.timers = Tail(@)]
    /\ UNCHANGED <<engine, nav, page, document, fault, renderFault, running, pc, executed,
                   results, filteredLinks, idx, linkInfo, response, domainCheck,
                   error, seen, locator, inflight, requests>>

\* code.onmouseover of the PerformanceChecker's panel.
MouseOver ==
    /\ engine = "perf"
    /\ running = 0
    /\ PanelShown
    /\ HasLocatedFinding(results)
    /\ ~highlight.hovering
    /\ highlight' = [highlight EXCEPT !.outline = "2px solid #ff0", !.hovering = TRUE]
    /\ UNCHANGED <<engine, nav, page, document, fault, renderFault, running, pc, executed,
                   results, filteredLinks, idx, linkInfo, response, domainCheck,
                   error, seen, locator, inflight, requests>>

\* code.onmouseout of the PerformanceChecker's panel.
MouseOut ==
    /\ engine = "perf"
    /\ running = 0
    /\ highlight.hovering
    /\ highlight' = [highlight EXCEPT !.outline = "", !.hovering = FALSE]
    /\ UNCHANGED <<engine, nav, page, document, fault, renderFault, running, pc, executed,
                   results, filteredLinks, idx, linkInfo, response, domainCheck,
                   error, seen, locator, inflight, requests>>

\* The panel on the page (the last one appended).
Panel == document.body[Len(document.body)]

\* tab.onclick of tab k: every <div> under tabContents gets display 'none'
\* (the tab contents and the <div>s inside them), then this tab's content
\* gets 'block'; every tab button's border is reset, then this tab's is set.
TabClicked(tabs, k) ==
    [j \in 1..Len(tabs) |->
        [name |-> tabs[j].name,
         border |-> IF j = k THEN "#007bff" ELSE "transparent",
         display |-> IF j = k THEN "block" ELSE "none",
         rows |-> [i \in 1..Len(tabs[j].rows) |->
                    [tag |-> tabs[j].rows[i].tag,
                     display |-> IF tabs[j].rows[i].tag = "div"
                                 THEN "none" ELSE tabs[j].rows[i].display]]]]

TabClick ==
    /\ running = 0
    /\ PanelShown
    /\ \E k \in 1..Len(Panel.tabs) :
            document' = [document EXCEPT
                !.body[Len(document.body)] =
                    [id |-> Panel.id, by |-> Panel.by,
                     tabs |-> TabClicked(Panel.tabs, k), clicked |-> k]]
    /\ UNCHANGED <<engine, nav, page, highlight, fault, renderFault, running, pc, executed,
                   results, filteredLinks, idx, linkInfo, response, domainCheck,
                   error, seen, locator, inflight, requests>>

\* closeBtn.onclick: resultsDiv.remove()
ClosePanel ==
    /\ running = 0
    /\ PanelShown
    /\ document' = [document EXCEPT !.body = SubSeq(@, 1, Len(@) - 1)]
    /\ highlight' = [highlight EXCEPT !.hovering = FALSE]
    /\ UNCHANGED <<engine, nav, page, fault, renderFault, running, pc, executed, results,
                   filteredLinks, idx, linkInfo, response, domainCheck, error,
                   seen, locator, inflight, requests>>

\* ------------------------------------------------------------ mobile navigation
\* The navigation after mobile-first.js's DOMContentLoaded listener has run,
\* on a page whose menu has n nav links and that has or lacks a <main>: the
\* menu is closed and the live region announces the page.
NavLoaded(n, hasMain) ==
    [links |-> n, hasMain |-> hasMain, expanded |-> "false", show |-> FALSE,
     overflow |-> "", inert |-> FALSE, live |-> "Loaded", focus |-> 0, traps |-> 0]

\* The click listener of nav link i (the click has focused the link).
NavLinkClicked(n, i) ==
    IF n.show
    THEN [n EXCEPT !.show = FALSE, !.expanded = "false", !.overflow = "",
                   !.focus = 1 + i]
    ELSE [n EXCEPT !.focus = 1 + i]

\* The click listener of the menu toggle.
NavToggleClick ==
    /\ engine = "nav"
    /\ LET isExpanded == nav.expanded = "true"
           newState == ~isExpanded
       IN  /\ newState => nav.traps < MaxOpens
           /\ nav' = [nav EXCEPT
                    !.expanded = IF newState THEN "true" ELSE "false",
                    !.show = ~@,
                    !.overflow = IF newState THEN "hidden" ELSE "",
                    !.inert = IF nav.hasMain THEN newState ELSE @,
                    !.live = IF newState THEN "Main menu opened" ELSE "Main menu closed",
                    !.focus = IF newState /\ nav.links > 0 THEN 2 ELSE 1,
                    !.traps = IF newState THEN @ + 1 ELSE @]
    /\ UNCHANGED <<engine, page, highlight, document, fault, renderFault, running, pc,
                   executed, results, filteredLinks, idx, linkInfo, response,
                   domainCheck, error, seen, locator, inflight, requests>>

NavLinkClick ==
    /\ engine = "nav"
    /\ \E i \in 1..nav.links : nav' = NavLinkClicked(nav, i)
    /\ UNCHANGED <<engine, page, highlight, document, fault, renderFault, running, pc,
                   executed, results, filteredLinks, idx, linkInfo, response,
                   domainCheck, error, seen, locator, inflight, requests>>

\* A Tab key press (with or without Shift) while a nav link has focus: the
\* keydown listeners of trapFocus, if any, wrap the focus at the ends of the
\* menu and prevent the default; otherwise the browser moves the focus.
NavTabKey ==
    /\ engine = "nav"
    /\ nav.focus > 1
    /\ \E shiftKey \in BOOLEAN :
            nav' = [nav EXCEPT !.focus =
                IF shiftKey
                THEN IF nav.focus = 2
                     THEN IF nav.traps > 0 THEN 1 + nav.links ELSE 1
                     ELSE nav.focus - 1
                ELSE IF nav.focus = 1 + nav.links
                     THEN IF nav.traps > 0 THEN 2 ELSE 0
                     ELSE nav.focus + 1]
    /\ UNCHANGED <<engine, page, highlight, document, fault, renderFault, running, pc,
                   executed, results, filteredLinks, idx, linkInfo, response,
                   domainCheck, error, seen, locator, inflight, requests>>

\* ------------------------------------------------------------ the caller
\* The type of each finding of a bucket, in order.
TypesOf(bucket) == [i \in 1..Len(bucket) |-> bucket[i].type]

\* What a caller has read before it reads.
NotSeen == [read |-> FALSE, first |-> <<>>, warnings |-> <<>>, notices |-> <<>>]

\* The findings a caller reads from checker.results: the first bucket
\* (errors of the AccessibilityChecker, issues of the PerformanceChecker),
\* warnings and notices.
SeenIn(res) ==
    [read |-> TRUE,
     first |-> IF engine = "perf" THEN TypesOf(res.issues) ELSE TypesOf(res.errors),
     warnings |-> TypesOf(res.warnings),
     notices |-> TypesOf(res.notices)]

\* The positions at which a call of a run method has ended.
Ended == {"returned", "threw", "resolved", "rejected"}

\* The caller of call r reads checker.results once the call has ended, before
\* it calls again.
CallerReads(r) ==
    /\ engine \in {"a11y", "perf"}
    /\ running = 0
    /\ pc[r] \in Ended
    /\ ~seen[r].read
    /\ \A q \in Runs : q > r => pc[q] = "idle"
    /\ seen' = [seen EXCEPT ![r] = SeenIn(results)]
    /\ UNCHANGED <<engine, nav, page, highlight, document, fault, renderFault, running, pc, executed,
                   results, filteredLinks, idx, linkInfo, response, domainCheck,
                   error, locator, inflight, requests>>

\* ------------------------------------------------------------ specifications
\* The state after the script has constructed its checker, for each page and
\* browser within the bounds. A browser in which a check raises is given the
\* page without headings and images: what the page holds plays no part in a
\* check that raises.
Init ==
    /\ engine \in {"a11y", "perf", "links"}
    /\ document \in
        [anchors : IF engine = "links" THEN SeqsUpTo(HrefAttributes, MaxLinks) ELSE {<<>>},
         headings : IF engine = "a11y" THEN SeqsUpTo(HeadingElements, MaxHeadings) ELSE {<<>>},
         images : IF engine = "a11y" THEN SeqsUpTo(ImageElements, MaxImages) ELSE {<<>>},
         tree : {<<>>},
         scripts : IF engine = "perf" THEN {0, 1} ELSE {0},
         resources : {<<>>}, nodes : {<<>>},
         elements : IF engine = "perf" THEN {domSize, domSize + 1} ELSE {domSize},
         body : {<<>>},
         head : {<<>>}]
    /\ fault \in (CASE engine = "a11y" -> Range(A11yChecks) \cup {"none"}
                    [] engine = "perf" -> Range(PerfChecks) \cup {"none"}
                    [] OTHER -> {"none"})
    /\ fault # "none" => (document.headings = <<>> /\ document.images = <<>>)
    /\ renderFault \in (IF engine = "a11y" THEN {FALSE} ELSE BOOLEAN)
    /\ running = 0
    /\ pc = [r \in Runs |-> "idle"]
    /\ executed = [r \in Runs |-> <<>>]
    /\ results = (CASE engine = "a11y" -> A11yResults
                    [] engine = "perf" -> PerfResults
                    [] OTHER -> LinkResults)
    /\ filteredLinks = [r \in Runs |-> <<>>]
    /\ idx = [r \in Runs |-> 0]
    /\ linkInfo = [r \in Runs |-> NoLinkInfo]
    /\ response = [r \in Runs |-> NoResponse]
    /\ domainCheck = [r \in Runs |-> NoResponse]
    /\ error = [r \in Runs |-> "none"]
    /\ seen = [r \in Runs |-> NotSeen]
    /\ highlight \in {NoHighlight(o) : o \in IF engine = "perf" THEN PageOutlines ELSE {""}}
    /\ page = DevelopmentPage
    /\ nav = NavLoaded(0, FALSE)
    /\ locator = NoLocator
    /\ inflight = {}
    /\ requests = {}

\* The steps of call r of the instance's run method.
A11yStep(r) ==
    \/ A11yRunAllChecks(r)
    \/ A11yRunCheck(r)
    \/ A11yShowResults(r)

PerfStep(r) ==
    \/ PerfRunAllChecks(r)
    \/ PerfCheckImages(r)
    \/ PerfResume(r)
    \/ PerfRunCheck(r)
    \/ PerfShowResults(r)
    \/ PerfCatch(r)

LinkStep(r) ==
    \/ LinkCheckAllLinks(r)
    \/ LinkLoop(r)
    \/ LinkCheckLink(r)
    \/ LinkHeadSettles(r)
    \/ LinkRootSettles(r)
    \/ LinkResume(r)
    \/ LinkShowResults(r)
    \/ LinkCatch(r)

\* The page as the scripts drive it: each DOMContentLoaded listener constructs
\* its checker and calls its run method once.
Next == A11yStep(1) \/ PerfStep(1) \/ LinkStep(1)

Spec == Init /\ [][Next]_vars

\* The LinkChecker class driven by any caller: checkAllLinks may be called
\* again on the same instance whenever the event loop is idle.
NextCalls == \E r \in Runs : LinkStep(r)

InitCalls == Init /\ engine = "links"

SpecCalls == InitCalls /\ [][NextCalls]_vars

\* The selector resolver on its own: any document tree within the bound, and
\* the resolver and the lookup applied to its elements.
InitSelector ==
    /\ engine = "selector"
    /\ document \in
        [anchors : {<<>>}, headings : {<<>>}, images : {<<>>}, tree : DocumentTrees,
         scripts : {0}, resources : {<<>>}, nodes : {<<>>},
         elements : {domSize}, body : {<<>>}, head : {<<>>}]
    /\ fault = "none"
    /\ renderFault = FALSE
    /\ running = 0
    /\ pc = [r \in Runs |-> "idle"]
    /\ executed = [r \in Runs |-> <<>>]
    /\ results = LinkResults
    /\ filteredLinks = [r \in Runs |-> <<>>]
    /\ idx = [r \in Runs |-> 0]
    /\ linkInfo = [r \in Runs |-> NoLinkInfo]
    /\ response = [r \in Runs |-> NoResponse]
    /\ domainCheck = [r \in Runs |-> NoResponse]
    /\ error = [r \in Runs |-> "none"]
    /\ seen = [r \in Runs |-> NotSeen]
    /\ highlight = NoHighlight("")
    /\ page = DevelopmentPage
    /\ nav = NavLoaded(0, FALSE)
    /\ locator = NoLocator
    /\ inflight = {}
    /\ requests = {}

NextSelector == ResolveSelectors \/ LocateSelector

SpecSelector == InitSelector /\ [][NextSelector]_vars

\* A checker instance whose runAllChecks is called again, after its caller has
\* read the results of the call before.
InitReruns == Init /\ engine \in {"a11y", "perf"}

NextReruns == \E r \in Runs : A11yStep(r) \/ PerfStep(r) \/ CallerReads(r)

SpecReruns == InitReruns /\ [][NextReruns]_vars

\* A page load: the page of any host and query is parsed, the browser
\* dispatches DOMContentLoaded, and the checker's listener runs.
DocumentParsed ==
    /\ page.readyState = "loading"
    /\ page' = [page EXCEPT !.readyState = "interactive"]
    /\ UNCHANGED <<engine, nav, highlight, seen, locator, domainCheck, document, fault,
                   renderFault, running, pc, executed, results, filteredLinks, idx,
                   linkInfo, response, error, inflight, requests>>

InitLoad ==
    /\ engine \in {"a11y", "perf", "links"}
    /\ document \in
        [anchors : IF engine = "links" THEN SeqsUpTo(HrefAttributes, MaxLinks) ELSE {<<>>},
         headings : {<<>>}, images : {<<>>}, tree : {<<>>}, scripts : {0},
         resources : {<<>>}, nodes : {<<>>}, elements : {domSize}, body : {<<>>}, head : {<<>>}]
    /\ fault = "none"
    /\ renderFault = FALSE
    /\ running = 0
    /\ pc = [r \in Runs |-> "idle"]
    /\ executed = [r \in Runs |-> <<>>]
    /\ results = (CASE engine = "a11y" -> A11yResults
                    [] engine = "perf" -> PerfResults
                    [] OTHER -> LinkResults)
    /\ filteredLinks = [r \in Runs |-> <<>>]
    /\ idx = [r \in Runs |-> 0]
    /\ linkInfo = [r \in Runs |-> NoLinkInfo]
    /\ response = [r \in Runs |-> NoResponse]
    /\ domainCheck = [r \in Runs |-> NoResponse]
    /\ error = [r \in Runs |-> "none"]
    /\ seen = [r \in Runs |-> NotSeen]
    /\ highlight = NoHighlight("")
    /\ page \in [hostname : {LocationHostname, ProductionHostname},
                 search : LocationSearches, readyState : {"loading"}]
    /\ nav = NavLoaded(0, FALSE)
    /\ locator = NoLocator
    /\ inflight = {}
    /\ requests = {}

NextLoad ==
    \/ DocumentParsed
    \/ A11yRunAllChecks(1)
    \/ PerfRunAllChecks(1)
    \/ LinkCheckAllLinks(1)

SpecLoad == InitLoad /\ [][NextLoad]_vars

\* The PerformanceChecker on a page with resource entries.
InitAssets ==
    /\ engine = "perf"
    /\ document \in
        [anchors : {<<>>}, headings : {<<>>}, images : {<<>>}, tree : {<<>>},
         scripts : {0}, resources : SeqsUpTo(ResourceEntries, MaxResources),
         nodes : {<<>>},
         elements : {domSize}, body : {<<>>}, head : {<<>>}]
    /\ fault = "none"
    /\ renderFault \in BOOLEAN
    /\ running = 0
    /\ pc = [r \in Runs |-> "idle"]
    /\ executed = [r \in Runs |-> <<>>]
    /\ results = PerfResults
    /\ filteredLinks = [r \in Runs |-> <<>>]
    /\ idx = [r \in Runs |-> 0]
    /\ linkInfo = [r \in Runs |-> NoLinkInfo]
    /\ response = [r \in Runs |-> NoResponse]
    /\ domainCheck = [r \in Runs |-> NoResponse]
    /\ error = [r \in Runs |-> "none"]
    /\ seen = [r \in Runs |-> NotSeen]
    /\ highlight = NoHighlight("")
    /\ page = DevelopmentPage
    /\ nav = NavLoaded(0, FALSE)
    /\ locator = NoLocator
    /\ inflight = {}
    /\ requests = {}

NextAssets == PerfStep(1)

SpecAssets == InitAssets /\ [][NextAssets]_vars

\* The AccessibilityChecker on a page with elements that carry roles,
\* tabindex and aria attributes.
InitAria ==
    /\ engine = "a11y"
    /\ document \in
        [anchors : {<<>>}, headings : {<<>>}, images : {<<>>}, tree : {<<>>},
         scripts : {0}, resources : {<<>>},
         nodes : SeqsUpTo(AriaElements, MaxElements),
         elements : {domSize}, body : {<<>>}, head : {<<>>}]
    /\ fault = "none"
    /\ renderFault = FALSE
    /\ running = 0
    /\ pc = [r \in Runs |-> "idle"]
    /\ executed = [r \in Runs |-> <<>>]
    /\ results = A11yResults
    /\ filteredLinks = [r \in Runs |-> <<>>]
    /\ idx = [r \in Runs |-> 0]
    /\ linkInfo = [r \in Runs |-> NoLinkInfo]
    /\ response = [r \in Runs |-> NoResponse]
    /\ domainCheck = [r \in Runs |-> NoResponse]
    /\ error = [r \in Runs |-> "none"]
    /\ seen = [r \in Runs |-> NotSeen]
    /\ highlight = NoHighlight("")
    /\ page = DevelopmentPage
    /\ nav = NavLoaded(0, FALSE)
    /\ locator = NoLocator
    /\ inflight = {}
    /\ requests = {}

NextAria == A11yStep(1)

SpecAria == InitAria /\ [][NextAria]_vars

\* The mobile navigation of a page with its user.
InitNav ==
    /\ engine = "nav"
    /\ document \in
        [anchors : {<<>>}, headings : {<<>>}, images : {<<>>}, tree : {<<>>},
         scripts : {0}, resources : {<<>>}, nodes : {<<>>},
         elements : {domSize}, body : {<<>>}, head : {<<>>}]
    /\ fault = "none"
    /\ renderFault = FALSE
    /\ running = 0
    /\ pc = [r \in Runs |-> "idle"]
    /\ executed = [r \in Runs |-> <<>>]
    /\ results = LinkResults
    /\ filteredLinks = [r \in Runs |-> <<>>]
    /\ idx = [r \in Runs |-> 0]
    /\ linkInfo = [r \in Runs |-> NoLinkInfo]
    /\ response = [r \in Runs |-> NoResponse]
    /\ domainCheck = [r \in Runs |-> NoResponse]
    /\ error = [r \in Runs |-> "none"]
    /\ seen = [r \in Runs |-> NotSeen]
    /\ highlight = NoHighlight("")
    /\ page \in [hostname : {LocationHostname, ProductionHostname},
                 search : {<<>>}, readyState : {"interactive"}]
    /\ nav \in {NavLoaded(n, hasMain) : n \in 0..MaxNavLinks, hasMain \in BOOLEAN}
    /\ locator = NoLocator
    /\ inflight = {}
    /\ requests = {}

NextNav == NavToggleClick \/ NavLinkClick \/ NavTabKey

SpecNav == InitNav /\ [][NextNav]_vars

\* The page with its user: after the run, the user clicks and hovers findings
\* of the panel, timers fire, and the user closes the panel.
NextPanel ==
    \/ Next
    \/ ClickFinding
    \/ TimerFires
    \/ MouseOver
    \/ MouseOut
    \/ TabClick
    \/ ClosePanel

SpecPanel == Init /\ [][NextPanel]_vars

\* ------------------------------------------------------------ properties
\* The findings of the error category in this.results.
ErrorFindings(res) ==
    IF engine = "perf"
    THEN SelectSeq(res.issues, LAMBDA f : f.type = "Error")
    ELSE SelectSeq(res.errors, LAMBDA f : f.type = "Error")

\* C1: no call of a checker's run method lets an error escape to its caller
\* (it neither throws nor rejects), and a finished checkAllLinks leaves the
\* status complete or error.
C1_NoErrorEscapes ==
    \A r \in Runs :
        /\ pc[r] \notin {"threw", "rejected"}
        /\ (engine = "links" /\ pc[r] = "resolved")
                => results.status \in {"complete", "error"}

\* C2: when a check of runAllChecks throws, the finished run holds exactly one
\* finding of the error category and has executed every other check.
C2_FailureIsolated ==
    \A r \in Runs :
        (engine \in {"a11y", "perf"} /\ fault # "none" /\ pc[r] \in Ended)
            => /\ Len(ErrorFindings(results)) = 1
               /\ \A c \in Range(IF engine = "perf" THEN PerfChecks ELSE A11yChecks) :
                      c # fault => c \in Range(executed[r])

\* C3: once results.status is complete or error, no step gives it another
\* value.
C3_StatusMonotonic ==
    [][results.status \in {"complete", "error"}
            => results'.status = results.status]_vars

\* C4: no call of checkAllLinks starts (resets the results and begins to
\* probe) while the instance's status is 'checking'.
C4_NoStartWhileChecking ==
    [][\A r \in Runs :
            (pc[r] = "idle" /\ pc'[r] # "idle") => results.status # "checking"]_vars

\* C5: a step that changes the document is the showResults of the running
\* call, taken when none of its probes is in flight and every check of the run
\* has settled (links: every filtered link has been checked; runAllChecks:
\* every check has returned, or one has failed and the catch clause reports),
\* and it only appends the panel and its style block; every other step, each
\* check included, leaves the document as it is.
C5_DocumentWrittenAfterChecks ==
    [][document' # document =>
        \E r \in Runs :
            /\ running = r
            /\ {q \in inflight : q.by = r} = {}
            /\ CASE engine = "links" ->
                        pc[r] = "showResults" /\ idx[r] > Len(filteredLinks[r])
                 [] engine = "perf" ->
                        \/ pc[r] = "showResults" /\ executed[r] = PerfChecks
                        \/ pc[r] = "catch" /\ error[r] # "none"
                 [] OTHER ->
                        pc[r] = "showResults" /\ executed[r] = A11yChecks
            /\ document'.anchors = document.anchors
            /\ document'.headings = document.headings
            /\ document'.images = document.images
            /\ document'.tree = document.tree
            /\ document'.scripts = document.scripts
            /\ document'.resources = document.resources
            /\ document'.nodes = document.nodes
            /\ document'.elements = document.elements
            /\ Len(document'.body) = Len(document.body) + 1
            /\ SubSeq(document'.body, 1, Len(document.body)) = document.body
            /\ document'.body[Len(document'.body)].by = r]_vars

C5_PanelAfterProbes ==
    /\ engine = "links"
    /\ Len(document.body) = 1
    /\ Cardinality(requests) = 2
    /\ results.status = "complete"

\* C6: a checkAllLinks call has at most one probe in flight, and the entries
\* it has put in results.broken are in the document order of their anchors.
C6_OneProbeAndDocumentOrder ==
    engine = "links" =>
        /\ \A r \in Runs : Cardinality({q \in inflight : q.by = r}) <= 1
        /\ \A i, j \in 1..Len(results.broken) :
              (i < j /\ results.broken[i].by = results.broken[j].by)
                  => results.broken[i].link < results.broken[j].link

C6_TwoBrokenInOrder ==
    /\ engine = "links"
    /\ Len(results.broken) = 2
    /\ Cardinality(requests) >= 2
    /\ pc[1] = "resolved"

\* C7: a checkAllLinks call that has finished has checked every filtered
\* link, whatever happened while checking an earlier one.
C7_LaterLinksChecked ==
    \A r \in Runs :
        (engine = "links" /\ pc[r] = "resolved") => idx[r] > Len(filteredLinks[r])

\* C8: when the HEAD probe of a link settles with a response that is not ok,
\* that step appends to results.broken one entry for the link, with the
\* response's status, and leaves results.internal as it is; and no link has
\* two entries of one call in results.broken.
C8_NonSuccessRecordedOnce ==
    /\ [][\A r \in Runs :
            (pc[r] = "awaitHead" /\ response'[r] # response[r] /\ ~response'[r].ok)
                => /\ Len(results'.broken) = Len(results.broken) + 1
                   /\ SubSeq(results'.broken, 1, Len(results.broken)) = results.broken
                   /\ results'.broken[Len(results'.broken)].link = linkInfo[r].link
                   /\ results'.broken[Len(results'.broken)].href = linkInfo[r].href
                   /\ results'.broken[Len(results'.broken)].status = response'[r].status
                   /\ results'.internal = results.internal]_vars
    /\ [](engine = "links" =>
            \A i, j \in 1..Len(results.broken) :
                (i # j /\ results.broken[i].by = results.broken[j].by)
                    => results.broken[i].link # results.broken[j].link)

C8_SameOriginNotFound ==
    /\ engine = "links"
    /\ pc[1] = "resolved"
    /\ results.internal = 0
    /\ \E i \in 1..Len(results.broken) :
          /\ results.broken[i].status = "404"
          /\ URLHostname(results.broken[i].href) = LocationHostname

\* C9: no request is issued for an anchor whose host is not the page's host
\* (allow-listed or any other origin), and a completed run has counted each
\* such anchor it checked as external.
C9_OtherHostsExternalNeverRequested ==
    engine = "links" =>
        /\ \A q \in requests :
              URLHostname(LinkHref(document.anchors[q.link])) = LocationHostname
        /\ \A r \in Runs :
              (pc[r] = "resolved" /\ results.status = "complete")
                  => results.external =
                        Cardinality({k \in 1..Len(filteredLinks[r]) :
                            URLHostname(LinkHref(document.anchors[filteredLinks[r][k]]))
                                # LocationHostname})

\* C10: every request goes to the page's own host or to a host of the
\* allow-list (one of its domains, or a subdomain of one).
C10_ProbesOnlyOwnOrAllowListed ==
    \A q \in requests :
        \/ q.hostname = LocationHostname
        \/ \E d \in 1..Len(allowedDomains) :
              LET suffix == <<".">> \o allowedDomains[d]
              IN  \/ q.hostname = allowedDomains[d]
                  \/ /\ Len(q.hostname) > Len(suffix)
                     /\ SubSeq(q.hostname, Len(q.hostname) - Len(suffix) + 1,
                               Len(q.hostname)) = suffix

FindingsOn(bucket, type, i) ==
    SelectSeq(bucket, LAMBDA f : f.type = type /\ f.element = i)

\* C12: after checkImages, every image-like element that is not decorative
\* (no aria-hidden="true", role neither presentation nor none) has exactly
\* one 'Missing alt attribute' error when it has no alt attribute, and exactly
\* one empty-alt warning and no error when its alt is the empty string; a
\* decorative element has neither an error nor a warning.
C12_AltFindings ==
    \A r \in Runs :
        (engine = "a11y" /\ "checkImages" \in Range(executed[r])) =>
            \A i \in 1..Len(document.images) :
                LET img == document.images[i]
                    decorative == \/ img.ariaHidden = "true"
                                  \/ img.role \in {"presentation", "none"}
                    errors == Len(FindingsOn(results.errors, "Missing alt attribute", i))
                    warnings == Len(FindingsOn(results.warnings,
                                        "Empty alt on non-decorative image", i))
                IN  /\ (~decorative /\ ~img.hasAlt) => (errors = 1 /\ warnings = 0)
                    /\ (~decorative /\ img.hasAlt /\ img.alt = <<>>)
                            => (errors = 0 /\ warnings = 1)
                    /\ decorative => (errors = 0 /\ warnings = 0)

C12_MissingEmptyAndDecorative ==
    /\ engine = "a11y"
    /\ pc[1] = "returned"
    /\ Len(results.errors) = 1
    /\ \E i, j \in 1..Len(document.images) :
          /\ ~document.images[i].hasAlt /\ document.images[i].role = "null"
          /\ document.images[i].ariaHidden = "null"
          /\ document.images[j].role = "none"

\* C13: after checkHeadings, the 'Skipped heading level' warnings are, in
\* document order, one for each heading that has a heading before it and
\* whose level is more than one above that heading's level, each referencing
\* its heading, and there is no other such warning.
C13_SkippedLevelWarnings ==
    \A r \in Runs :
        (engine = "a11y" /\ "checkHeadings" \in Range(executed[r])) =>
            LET level(i) ==
                    LET h == document.headings[i]
                    IN  IF h.tagName[1] = "H" THEN DigitValue(h.tagName[2])
                        ELSE IF h.hasAriaLevel THEN ParseInt(h.ariaLevel)
                        ELSE 2
                skipped == {i \in 2..Len(document.headings) : level(i) - level(i - 1) > 1}
                given == SelectSeq(results.warnings,
                                   LAMBDA f : f.type = "Skipped heading level")
            IN  /\ Len(given) = Cardinality(skipped)
                /\ \A i \in skipped : \E k \in 1..Len(given) : given[k].element = i
                /\ \A k, m \in 1..Len(given) :
                        k < m => given[k].element < given[m].element

C13_OneTwoFour ==
    /\ engine = "a11y"
    /\ pc[1] = "returned"
    /\ Len(document.headings) = 3
    /\ document.headings[1].tagName = <<"H", "1">>
    /\ document.headings[2].tagName = <<"H", "2">>
    /\ document.headings[3].tagName = <<"H", "4">>
    /\ Len(results.warnings) = 1
    /\ results.warnings[1].element = 3

\* C14: after checkDomSize, results.warnings holds exactly one 'Large DOM
\* size' warning, carrying the document's element count, when that count is
\* above 1500, and none when it is 1500 or less.
C14_DomSizeWarning ==
    \A r \in Runs :
        (engine = "perf" /\ "checkDomSize" \in Range(executed[r])) =>
            LET given == SelectSeq(results.warnings, LAMBDA f : f.type = "Large DOM size")
            IN  IF document.elements > 1500
                THEN Len(given) = 1 /\ given[1].nodes = document.elements
                ELSE Len(given) = 0

C14_OverThreshold ==
    /\ engine = "perf"
    /\ pc[1] = "resolved"
    /\ document.elements = 1501
    /\ Len(results.warnings) = 1
    /\ results.metrics["domSize"] = 1501

\* C15: the paths the resolver returns for two distinct sibling elements of
\* the same tag that have no id are different.
C15_SiblingPathsDiffer ==
    (engine = "selector" /\ locator.step # "idle") =>
        LET a == document.tree[locator.el]
            b == document.tree[locator.other]
        IN  (/\ locator.el # locator.other
             /\ a.parent = b.parent
             /\ a.tagName = b.tagName
             /\ a.id = "" /\ b.id = "")
                => locator.path # locator.otherPath

\* C16: for an element with an id the resolver returns the single segment
\* 'tag#id'; for an element without an id the path begins at its nearest
\* ancestor with an id (segment 'tag#id' of that ancestor) and has one
\* segment for each element from there down to it, or, when no ancestor has
\* an id, one segment for each element from the root down to it.
C16_PathStopsAtId ==
    (engine = "selector" /\ locator.step # "idle") =>
        LET tree == document.tree
            el == locator.el
            path == locator.path
            parent == [i \in 1..Len(tree) |-> tree[i].parent]
            above == AncestorsOrSelf(parent, el) \ {el}
            withId == {a \in above : tree[a].id # ""}
            nearest == CHOOSE a \in withId : \A b \in withId : b <= a
        IN  IF tree[el].id # ""
            THEN path = <<[tag |-> NodeNameLower(tree[el].tagName),
                           id |-> tree[el].id, nth |-> 0]>>
            ELSE IF withId # {}
            THEN /\ path[1] = [tag |-> NodeNameLower(tree[nearest].tagName),
                               id |-> tree[nearest].id, nth |-> 0]
                 /\ Len(path) = 1 + Cardinality({a \in above \cup {el} : a > nearest})
                 /\ \A k \in 2..Len(path) : path[k].id = ""
            ELSE /\ Len(path) = Cardinality(above) + 1
                 /\ \A k \in 1..Len(path) : path[k].id = ""

C16_StopsBelowRoot ==
    /\ engine = "selector"
    /\ locator.step = "resolved"
    /\ document.tree[locator.el].id = ""
    /\ Len(locator.path) = 2
    /\ locator.path[1].id = "x"
    /\ document.tree[locator.el].parent # 1
    /\ document.tree[locator.other].id = "y"

\* C17: looking the resolver's path up with document.querySelector returns
\* the element the path was resolved for.
C17_LocatorRoundTrip ==
    (engine = "selector" /\ locator.step = "located") => locator.found = locator.el

\* C18: when runAllChecks is run twice on an unchanged document and both runs
\* end normally, the findings read after the second run have, bucket by
\* bucket, the same types in the same numbers as those read after the first.
C18_SecondRunSameFindings ==
    \A r \in Runs :
        (/\ r > 1
         /\ seen[1].read /\ seen[r].read
         /\ pc[1] \in {"returned", "resolved"}
         /\ pc[r] \in {"returned", "resolved"})
            => seen[r] = seen[1]

\* C19: after at least one click on a finding, once no highlight timer is
\* pending (and the pointer is not over the finding), the element's inline
\* outline is the one it had before the first click.
C19_HighlightReverts ==
    (highlight.clicks > 0 /\ highlight.timers = <<>> /\ ~highlight.hovering)
        => highlight.outline = highlight.original

\* C20: showResults adds nothing outside document.body, and the step that
\* removes the panel leaves document.body and document.head as they were
\* before showResults.
C20_PanelFullyRemoved ==
    [][/\ Len(document'.body) > Len(document.body) => document'.head = document.head
       /\ Len(document'.body) < Len(document.body)
            => (document'.body = <<>> /\ document'.head = <<>>)]_vars

\* C21: a checker instance is constructed and run only after DOMContentLoaded
\* and only when the hostname is 'localhost' or the query string holds the
\* checker's debug flag; and on a page load of the production host no checker
\* instance is ever constructed.
C21_OnlyEnabledPagesRun ==
    /\ pc[1] # "idle" =>
            /\ page.readyState # "loading"
            /\ (page.hostname = LocationHostname \/ Includes(page.search, DebugFlag(engine)))
    /\ page.hostname = ProductionHostname => pc[1] = "idle"

\* C22: once checkAllLinks has run its filter, every anchor whose href is a
\* fragment of the current page ("#..." ) has an entry in results.samePage.
C22_FragmentAnchorsInSamePage ==
    (engine = "links" /\ pc[1] # "idle") =>
        \A i \in 1..Len(document.anchors) :
            StartsWith(document.anchors[i], <<"#">>) =>
                \E k \in 1..Len(results.samePage) : results.samePage[k].link = i

\* The hostname, path and file type of a resource URL: the file type is what
\* follows the last '.' of the path (the URL without its query).
ResourcePath(url) == UpTo(url, {"?", "#"})

FileType(url) == ToLowerCase(LastPiece(ResourcePath(url), "."))

\* The warnings of a type about resource i.
WarningsOn(type, i) ==
    SelectSeq(results.warnings,
              LAMBDA w : w.type = type /\ "resource" \in DOMAIN w /\ w.resource = i)

\* C23: once checkCaching has run, every same-origin resource whose file type
\* is cacheable and whose URL has query parameters has exactly one
\* 'Cache-busting parameters' warning.
C23_CacheBustingWarned ==
    (\E k \in 1..Len(executed[1]) : executed[1][k] = "checkCaching") =>
        \A i \in 1..Len(document.resources) :
            LET url == document.resources[i].name
            IN  (/\ URLHostname(url) = page.hostname
                 /\ FileType(url) \in cacheable
                 /\ Includes(url, <<"?">>))
                    => Len(WarningsOn("Cache-busting parameters", i)) = 1

\* C26: once checkAssets has run, a same-origin stylesheet (script) has a
\* 'Large CSS file' ('Large JS file') warning exactly when its transfer size
\* in bytes is above cssSize (jsSize) x 1024.
C26_LargeAssetWarned ==
    (\E k \in 1..Len(executed[1]) : executed[1][k] = "checkAssets") =>
        \A i \in 1..Len(document.resources) :
            LET url == document.resources[i].name
                bytes == document.resources[i].transferSize
            IN  URLHostname(url) = page.hostname =>
                    /\ FileType(url) = <<"c","s","s">> =>
                            (WarningsOn("Large CSS file", i) # <<>> <=> bytes > cssSize * 1024)
                    /\ FileType(url) = <<"j","s">> =>
                            (WarningsOn("Large JS file", i) # <<>> <=> bytes > jsSize * 1024)

\* The warnings of a type about element i of document.nodes.
NodeWarnings(type, i) ==
    SelectSeq(results.warnings, LAMBDA w : w.type = type /\ w.element = i)

\* C24: once checkInteractiveElements and checkAria have run, every element
\* with an interactive role that keyboard focus does not reach (tabIndex < 0)
\* has a 'Non-interactive element with interactive role' warning.
C24_UnfocusableRoleWarned ==
    (\E k \in 1..Len(executed[1]) : executed[1][k] = "checkAria") =>
        \A i \in 1..Len(document.nodes) :
            (document.nodes[i].role \in interactiveRoles /\ TabIndex(document.nodes[i]) < 0)
                => NodeWarnings("Non-interactive element with interactive role", i) # <<>>

\* C25: once checkAria has run, every attribute of an element whose name
\* starts with 'aria-' and is not a recognized one has exactly one
\* 'Invalid ARIA attribute' warning.
C25_UnknownAriaWarned ==
    (\E k \in 1..Len(executed[1]) : executed[1][k] = "checkAria") =>
        \A i \in 1..Len(document.nodes) :
            \A a \in Range(document.nodes[i].attributes) :
                (StartsWith(a, AriaPrefix) /\ a \notin validAriaAttrs) =>
                    Len(SelectSeq(NodeWarnings("Invalid ARIA attribute", i),
                                  LAMBDA w : w.attribute = a)) = 1

\* C27: when the run of checkAllLinks is complete, the filtered links are
\* counted once each: internal + external + broken.length is the number of
\* filtered links, no link has two entries in results.broken, and that sum
\* plus emptyHrefs.length plus samePage.length is at most results.total.
C27_FilteredLinksCountedOnce ==
    (engine = "links" /\ results.status = "complete") =>
        LET counted == results.internal + results.external + Len(results.broken)
        IN  /\ counted = Len(filteredLinks[1])
            /\ \A i \in Range(filteredLinks[1]) :
                    Cardinality({k \in 1..Len(results.broken) : results.broken[k].link = i}) <= 1
            /\ counted + Len(results.emptyHrefs) + Len(results.samePage) <= results.total

\* A complete run over an ignored anchor and a broken link.
C27_IgnoredAndBroken ==
    /\ engine = "links"
    /\ results.status = "complete"
    /\ results.total = 2
    /\ Len(results.samePage) = 1
    /\ Len(filteredLinks[1]) = 1
    /\ Len(results.broken) = 1

\* Whether a tab's content and every row in it are displayed.
TabFullyVisible(tab) ==
    tab.display = "block" /\ \A i \in 1..Len(tab.rows) : tab.rows[i].display # "none"

\* C28: in a displayed panel, once a tab has been clicked, the content of the
\* tab clicked last is visible with every row in it, and the content of
\* every other tab is hidden.
C28_ClickedTabVisible ==
    (PanelShown /\ Panel.clicked # 0) =>
        \A j \in 1..Len(Panel.tabs) :
            IF j = Panel.clicked
            THEN TabFullyVisible(Panel.tabs[j])
            ELSE Panel.tabs[j].display = "none"

\* C29: a displayed panel that has at least one tab shows the content of
\* exactly one tab before any tab is clicked.
C29_OneTabVisibleAtFirst ==
    (PanelShown /\ Panel.clicked = 0 /\ Panel.tabs # <<>>) =>
        Cardinality({j \in 1..Len(Panel.tabs) : Panel.tabs[j].display = "block"}) = 1

\* C30: on a page with a main element, after any toggle and nav-link clicks,
\* main is inert exactly when the menu is open: the collapse element has
\* class 'show' and the toggle's aria-expanded is 'true'.
C30_InertIffMenuOpen ==
    (engine = "nav" /\ nav.hasMain) =>
        (nav.inert <=> (nav.show /\ nav.expanded = "true"))

====
